---- MODULE Spec2Model ----
(***************************************************************************)
(* Reading-order reconstruction pipeline of ImageBasedProcessing_Claude:   *)
(* stage 3 (tile stitching), stage 4 (merge quadrants), stage 5 (metrics   *)
(* and adaptive thresholds), stage 6 (horizontal merge), stage 7 (vertical *)
(* buckets), stage 8 (horizontal buckets), stage 9 (vertical stacking) and *)
(* stage 10 (export of the simplified pages), for one page and for the     *)
(* pages of a document.                                                    *)
(*                                                                         *)
(* Conventions of the model                                                *)
(*  - Python None is the empty tuple <<>>, a present value v is <<v>>.     *)
(*  - text is a sequence of one-character strings.                         *)
(*  - confidence is kept in hundredths (0.3 is 30).                        *)
(*  - mid_y_x = mid_y + start_x / 50 is kept in fiftieths (KeyScale).      *)
(*  - the adaptive thresholds are kept in twentieths (TScale).             *)
(*  - round() is Python's round-half-to-even on exact rationals.           *)
(***************************************************************************)
EXTENDS Integers, Sequences, FiniteSets, TLC

VARIABLES quadrants, pc, ocr_results, merged, metrics, hmerged, vbuckets,
          hbuckets, stacked,
          \* the page record merge_page_quadrants was called with, as the call
          \* leaves it in memory
          loaded_page_data,
          \* the locals of vertical_column_stack_sort while it runs
          stack_buckets, ref_index, current_index,
          \* history: the pairs <<reference id, moved id>> of the moves made
          moves,
          \* a document of several pages: the pages of ocr_metadata.json, the
          \* page files written by stages 4 to 9, and the state of the export
          \* loop of stage 10
          ocr_metadata, store, export_pc, bucket_files, last_bucket_prev_page,
          llm_ready

batch_vars == <<ocr_metadata, store, export_pc, bucket_files,
                last_bucket_prev_page, llm_ready>>

vars == <<quadrants, pc, ocr_results, merged, metrics, hmerged, vbuckets,
          hbuckets, stacked, loaded_page_data, stack_buckets, ref_index,
          current_index, moves, batch_vars>>

(***************************************************************************)
(* Bounds of the model                                                     *)
(***************************************************************************)
MaxFrags == 3

(***************************************************************************)
(* Scales and program constants                                            *)
(***************************************************************************)
KeyScale == 50
TScale == 20
ConfScale == 100
MinConfidence == 30
RefPageWidth == 2550
RefPageHeight == 3300

None == <<>>
Some(v) == <<v>>
IsNone(o) == o = <<>>
Val(o) == o[1]

Abs(x) == IF x < 0 THEN -x ELSE x
Min2(a, b) == IF a <= b THEN a ELSE b
\* Variant: the first argument whatever the second.
FirstOf(a, b) == a

Max2(a, b) == IF a >= b THEN a ELSE b
SetMin(S) == CHOOSE m \in S : \A x \in S : m <= x
SetMax(S) == CHOOSE m \in S : \A x \in S : m >= x
Range(s) == {s[i] : i \in DOMAIN s}

\* Python round(n / d) for d > 0: nearest integer, ties to the even one.
Round(n, d) ==
    LET q == n \div d
        r == n % d
    IN  IF 2 * r < d THEN q
        ELSE IF 2 * r > d THEN q + 1
        ELSE IF q % 2 = 0 THEN q ELSE q + 1

\* list.sort(key=...) / sorted(..., key=...): stable ascending sort on a field.
SortByKey(s, f) ==
    LET pos(i) == 1 + Cardinality({j \in DOMAIN s :
                        \/ s[j][f] < s[i][f]
                        \/ (s[j][f] = s[i][f] /\ j < i)})
    IN  [k \in 1..Len(s) |-> s[CHOOSE i \in DOMAIN s : pos(i) = k]]

RECURSIVE Concat(_)
Concat(ss) == IF ss = <<>> THEN <<>> ELSE Head(ss) \o Concat(Tail(ss))

\* len(text.split()): number of maximal runs of non-space characters.
WordCount(text) ==
    Cardinality({i \in DOMAIN text :
        text[i] # " " /\ (i = 1 \/ text[i - 1] = " ")})

(***************************************************************************)
(* Stage 3: one OCR detection turned into a block                          *)
(***************************************************************************)
OcrBlock(text, start_x, end_x, start_y, end_y, confidence) ==
    LET mid_y_rounded == Round(start_y + end_y, 2)
    IN  [text |-> text,
         start_x |-> start_x,
         end_x |-> end_x,
         start_y |-> start_y,
         end_y |-> end_y,
         mid_x |-> Round(start_x + end_x, 2),
         mid_y |-> mid_y_rounded,
         mid_y_x |-> KeyScale * mid_y_rounded + start_x,
         height |-> end_y - start_y,
         confidence |-> confidence,
         char_count |-> Len(text),
         word_count |-> WordCount(text)]

MidYX(block) == KeyScale * block.mid_y + block.start_x

\* Variant: only the left edge is shifted.
AdjustRightStartOnly(block, left_quadrant_width) ==
    LET b == [block EXCEPT !.start_x = @ + left_quadrant_width]
    IN  [b EXCEPT !.mid_y_x = MidYX(b)]

AdjustRightBlock(block, left_quadrant_width) ==
    LET b == [block EXCEPT !.start_x = @ + left_quadrant_width,
                           !.end_x = @ + left_quadrant_width,
                           !.mid_x = @ + left_quadrant_width]
    IN  [b EXCEPT !.mid_y_x = MidYX(b)]

adjust_right_quadrant_x_coordinates(quadrant_result, left_quadrant_width) ==
    [quadrant_result EXCEPT
        !.blocks = [i \in DOMAIN @ |-> AdjustRightBlock(@[i], left_quadrant_width)],
        !.min_x = IF IsNone(@) THEN @ ELSE Some(Val(@) + left_quadrant_width),
        !.max_x = IF IsNone(quadrant_result.min_x) THEN @
                  ELSE Some(Val(@) + left_quadrant_width)]

AdjustBottomBlock(block, top_quadrant_height) ==
    LET b == [block EXCEPT !.start_y = @ + top_quadrant_height,
                           !.end_y = @ + top_quadrant_height,
                           !.mid_y = @ + top_quadrant_height]
    IN  [b EXCEPT !.mid_y_x = MidYX(b)]

adjust_bottom_quadrant_y_coordinates(quadrant_result, top_quadrant_height) ==
    [quadrant_result EXCEPT
        !.blocks = [i \in DOMAIN @ |-> AdjustBottomBlock(@[i], top_quadrant_height)],
        !.min_y = IF IsNone(@) THEN @ ELSE Some(Val(@) + top_quadrant_height),
        !.max_y = IF IsNone(quadrant_result.min_y) THEN @
                  ELSE Some(Val(@) + top_quadrant_height)]

\* Python truthiness of a width/height that may be None.
Truthy(o) == ~IsNone(o) /\ Val(o) # 0

QuadrantResult(q) ==
    LET ocr_blocks == q.ocr
        has == ocr_blocks # <<>>
    IN  [quadrant_name |-> q.quadrant_name,
         image_width |-> q.width_px,
         image_height |-> q.height_px,
         total_blocks |-> Len(ocr_blocks),
         min_x |-> IF has THEN Some(SetMin({b.start_x : b \in Range(ocr_blocks)})) ELSE None,
         max_x |-> IF has THEN Some(SetMax({b.end_x : b \in Range(ocr_blocks)})) ELSE None,
         min_y |-> IF has THEN Some(SetMin({b.start_y : b \in Range(ocr_blocks)})) ELSE None,
         max_y |-> IF has THEN Some(SetMax({b.end_y : b \in Range(ocr_blocks)})) ELSE None,
         blocks |-> ocr_blocks]

\* The per-page loop over the quadrants of extract_all_quadrants: k is the
\* position in the metadata list, left_w / top_h the tracked dimensions.
RECURSIVE ExtractLoop(_, _, _, _, _)
ExtractLoop(quads, k, left_w, top_h, acc) ==
    IF k > Len(quads) THEN acc
    ELSE LET q == quads[k] IN
         IF ~q.exists THEN ExtractLoop(quads, k + 1, left_w, top_h, acc)
         ELSE
           LET name == q.quadrant_name
               r0 == QuadrantResult(q)
               lw == IF name \in {"top_left", "bottom_left"}
                     THEN Some(q.width_px) ELSE left_w
               th == IF name \in {"top_left", "top_right"}
                     THEN Some(q.height_px) ELSE top_h
               r1 == IF name \in {"top_right", "bottom_right"} /\ Truthy(lw)
                     THEN adjust_right_quadrant_x_coordinates(r0, Val(lw))
                     ELSE r0
               r2 == IF name \in {"bottom_left", "bottom_right"} /\ Truthy(th)
                     THEN adjust_bottom_quadrant_y_coordinates(r1, Val(th))
                     ELSE r1
           IN  ExtractLoop(quads, k + 1, lw, th, Append(acc, r2))

extract_all_quadrants(quads) ==
    [page_number |-> 1, quadrants |-> ExtractLoop(quads, 1, None, None, <<>>)]

(***************************************************************************)
(* Stage 4: merge quadrants                                                *)
(***************************************************************************)
ScaleBlock(block) ==
    LET b == [block EXCEPT !.start_x = Round(@, 2),
                           !.end_x = Round(@, 2),
                           !.mid_x = Round(@, 2),
                           !.start_y = Round(@, 2),
                           !.end_y = Round(@, 2),
                           !.mid_y = Round(@, 2),
                           !.height = Round(@, 2)]
    IN  [b EXCEPT !.mid_y_x = MidYX(b)]

scale_coordinates_to_original(blocks) ==
    [i \in DOMAIN blocks |-> ScaleBlock(blocks[i])]

\* The blocks of one quadrant tagged with their source quadrant.
TagBlocks(quadrant_data) ==
    [i \in DOMAIN quadrant_data.blocks |->
        [f \in DOMAIN quadrant_data.blocks[i] \cup {"source_quadrant"} |->
            IF f = "source_quadrant" THEN quadrant_data.quadrant_name
            ELSE quadrant_data.blocks[i][f]]]

\* Variant: a confidence equal to the floor is discarded.
FilterAboveFloor(blocks, min_confidence) ==
    SelectSeq(blocks, LAMBDA b :
        (IF "confidence" \in DOMAIN b THEN b.confidence ELSE 0) > min_confidence)

\* Variant: no confidence filter.
KeepAllBlocks(blocks, min_confidence) == blocks

FilterBlocks(blocks, min_confidence) ==
    SelectSeq(blocks, LAMBDA b :
        (IF "confidence" \in DOMAIN b THEN b.confidence ELSE 0) >= min_confidence)

\* Variant: merge_page_quadrants works on copies of the records and leaves
\* its argument as it was.
InputUntouched(page_ocr_data, min_confidence) == page_ocr_data

\* page_ocr_data after merge_page_quadrants has returned: every record got
\* source_quadrant, and the records that passed the filter, which are the
\* ones scale_coordinates_to_original was given, hold the halved values.
InputAfterMerge(page_ocr_data, min_confidence) ==
    [page_ocr_data EXCEPT !.quadrants =
        [k \in DOMAIN page_ocr_data.quadrants |->
            [page_ocr_data.quadrants[k] EXCEPT !.blocks =
                LET tagged == TagBlocks(page_ocr_data.quadrants[k])
                IN  [i \in DOMAIN tagged |->
                        IF FilterBlocks(<<tagged[i]>>, min_confidence) # <<>>
                        THEN ScaleBlock(tagged[i]) ELSE tagged[i]]]]]

merge_page_quadrants(page_ocr_data, min_confidence) ==
    LET qs == page_ocr_data.quadrants
        tagged == Concat([k \in DOMAIN qs |-> TagBlocks(qs[k])])
        all_blocks == FilterBlocks(tagged, min_confidence)
        sorted_blocks == SortByKey(all_blocks, "mid_y_x")
        scaled == scale_coordinates_to_original(sorted_blocks)
    IN  [page_number |-> page_ocr_data.page_number,
         total_blocks |-> Len(scaled),
         blocks |-> scaled,
         blocks_filtered |-> Len(tagged) - Len(all_blocks)]

(***************************************************************************)
(* Stage 5: spatial metrics and adaptive thresholds                        *)
(***************************************************************************)
\* dict update: the fields of more override or extend those of rec.
Ext(rec, more) ==
    [f \in DOMAIN rec \cup DOMAIN more |->
        IF f \in DOMAIN more THEN more[f] ELSE rec[f]]

\* floor(sqrt(n)) by bisection on lo..hi (lo*lo <= n < (hi+1)*(hi+1)).
RECURSIVE ISqrtIn(_, _, _)
ISqrtIn(n, lo, hi) ==
    IF lo >= hi THEN lo
    ELSE LET m == (lo + hi + 1) \div 2
         IN  IF m * m <= n THEN ISqrtIn(n, m, hi) ELSE ISqrtIn(n, lo, m - 1)

\* int(round(math.sqrt(n))) for an integer n >= 0.
RoundSqrt(n) == (ISqrtIn(4 * n, 0, 46340) + 1) \div 2

\* The metrics of blocks[i]; prev is the (already processed) blocks[i-1].
BlockMetrics(blocks, i) ==
    LET block == blocks[i]
        width == block.end_x - block.start_x
        char_count == block.char_count
        character_width == IF char_count > 0
                           THEN Some(Round(width, char_count)) ELSE None
        prev_block == blocks[i - 1]
        mid_y_diff == block.mid_y - prev_block.mid_y
        mid_x_diff == block.mid_x - prev_block.mid_x
        rel == IF i > 1
               THEN [prev_mid_y_diff |-> Some(mid_y_diff),
                     prev_horizontal_gap |-> Some(block.start_x - prev_block.end_x),
                     prev_vertical_gap |-> Some(block.start_y - prev_block.end_y),
                     prev_overlap_x |-> Some(Min2(block.end_x, prev_block.end_x)
                                             - Max2(block.start_x, prev_block.start_x)),
                     prev_overlap_y |-> Some(Min2(block.end_y, prev_block.end_y)
                                             - Max2(block.start_y, prev_block.start_y)),
                     prev_distance |-> Some(RoundSqrt(mid_x_diff * mid_x_diff
                                                      + mid_y_diff * mid_y_diff))]
               ELSE [prev_mid_y_diff |-> None,
                     prev_horizontal_gap |-> None,
                     prev_vertical_gap |-> None,
                     prev_overlap_x |-> None,
                     prev_overlap_y |-> None,
                     prev_distance |-> None]
    IN  Ext(Ext(block, rel),
            [width |-> width,
             character_width |-> character_width,
             mid_y_x |-> KeyScale * Round(block.mid_y_x, KeyScale)])

calculate_block_metrics(blocks) ==
    [i \in DOMAIN blocks |-> BlockMetrics(blocks, i)]

\* The values of a list of integers in ascending order.
SortInts(s) ==
    LET pos(i) == 1 + Cardinality({j \in DOMAIN s :
                        s[j] < s[i] \/ (s[j] = s[i] /\ j < i)})
    IN  [k \in 1..Len(s) |-> s[CHOOSE i \in DOMAIN s : pos(i) = k]]

\* 2 * np.median(s) for a non-empty list of integers.
Median2(s) ==
    LET t == SortInts(s)
        n == Len(t)
    IN  IF n % 2 = 1 THEN 2 * t[(n + 1) \div 2]
        ELSE t[n \div 2] + t[n \div 2 + 1]

\* 4 * np.percentile(s, 25) (linear interpolation) for a non-empty list.
Percentile25x4(s) ==
    LET t == SortInts(s)
        n == Len(t)
        lo == (n - 1) \div 4
        fr == (n - 1) % 4
    IN  IF fr = 0 THEN 4 * t[lo + 1]
        ELSE 4 * t[lo + 1] + fr * (t[lo + 2] - t[lo + 1])

MinBlocksForStats == 10

\* Variant: the defaults are not flagged as defaults.
UnflaggedDefaults(n) ==
    [vertical_merge_tolerance |-> 50 * TScale,
     horizontal_merge_gap |-> 100 * TScale,
     vertical_bucket_tolerance |-> 70 * TScale,
     horizontal_bucket_tolerance |-> 50 * TScale,
     metadata |-> [median_height |-> 50 * TScale,
                   median_vertical_spacing |-> 75 * TScale,
                   median_char_width |-> 50 * TScale,
                   line_spacing_ratio |-> <<3, 2>>,
                   total_blocks_analyzed |-> n,
                   used_defaults |-> FALSE]]

DefaultThresholds(n) ==
    [vertical_merge_tolerance |-> 50 * TScale,
     horizontal_merge_gap |-> 100 * TScale,
     vertical_bucket_tolerance |-> 70 * TScale,
     horizontal_bucket_tolerance |-> 50 * TScale,
     metadata |-> [median_height |-> 50 * TScale,
                   median_vertical_spacing |-> 75 * TScale,
                   median_char_width |-> 50 * TScale,
                   line_spacing_ratio |-> <<3, 2>>,
                   total_blocks_analyzed |-> n,
                   used_defaults |-> TRUE]]

\* Every threshold is TScale times the Python value; line_spacing_ratio is the
\* fraction <<numerator, denominator>>.
calculate_adaptive_thresholds(blocks) ==
    IF Len(blocks) < MinBlocksForStats THEN DefaultThresholds(Len(blocks))
    ELSE
      LET vertical_diffs ==
              LET sel == SelectSeq(blocks, LAMBDA b :
                            ~IsNone(b.prev_mid_y_diff) /\ Val(b.prev_mid_y_diff) > 0)
              IN  [i \in DOMAIN sel |-> Val(sel[i].prev_mid_y_diff)]
          heights ==
              LET sel == SelectSeq(blocks, LAMBDA b : b.height > 0)
              IN  [i \in DOMAIN sel |-> sel[i].height]
          char_widths ==
              LET sel == SelectSeq(blocks, LAMBDA b :
                            ~IsNone(b.character_width) /\ Val(b.character_width) > 0)
              IN  [i \in DOMAIN sel |-> Val(sel[i].character_width)]
          \* in units of 1/4
          median_height4 == IF heights # <<>> THEN 2 * Median2(heights) ELSE 4 * 50
          p25_vertical_spacing4 == IF vertical_diffs # <<>>
                                   THEN Percentile25x4(vertical_diffs)
                                   ELSE median_height4
          \* 1.5 * median_height needs eighths
          median_vertical_spacing8 == IF vertical_diffs # <<>>
                                      THEN 4 * Median2(vertical_diffs)
                                      ELSE 3 * median_height4
          median_char_width4 == IF char_widths # <<>>
                                THEN 2 * Median2(char_widths) ELSE 4 * 50
      IN  [vertical_merge_tolerance |->
               \* max(p25 * 0.8, median_height * 0.5)
               Max2(4 * p25_vertical_spacing4, (5 * median_height4) \div 2),
           horizontal_merge_gap |->
               \* median_char_width * 2.5
               (25 * median_char_width4) \div 2,
           vertical_bucket_tolerance |->
               \* max(median_vertical_spacing * 1.2, median_height * 1.4)
               Max2(3 * median_vertical_spacing8, 7 * median_height4),
           horizontal_bucket_tolerance |->
               \* median_char_width * 1.5
               (15 * median_char_width4) \div 2,
           metadata |-> [median_height |-> 5 * median_height4,
                         median_vertical_spacing |-> (5 * median_vertical_spacing8) \div 2,
                         median_char_width |-> 5 * median_char_width4,
                         line_spacing_ratio |->
                             IF median_height4 > 0
                             THEN <<median_vertical_spacing8, 2 * median_height4>>
                             ELSE <<3, 2>>,
                         total_blocks_analyzed |-> Len(blocks),
                         used_defaults |-> FALSE]]

calculate_metrics_for_page(page_data) ==
    LET enhanced_blocks == calculate_block_metrics(page_data.blocks)
    IN  [page_number |-> page_data.page_number,
         total_blocks |-> page_data.total_blocks,
         adaptive_thresholds |-> calculate_adaptive_thresholds(enhanced_blocks),
         blocks |-> enhanced_blocks]

(***************************************************************************)
(* Stage 6: horizontal merge                                               *)
(***************************************************************************)
\* dict.get(key, default) on a block.
Get(block, f, default) == IF f \in DOMAIN block THEN block[f] ELSE default

\* Variant: on equal start_x the second argument comes first.
MergeTwoBlocksTieSecond(block1, block2) ==
    LET first_block == IF block1.start_x < block2.start_x THEN block1 ELSE block2
        second_block == IF block1.start_x < block2.start_x THEN block2 ELSE block1
        new_start_x == Min2(first_block.start_x, second_block.start_x)
        new_end_x == Max2(first_block.end_x, second_block.end_x)
        new_start_y == Min2(first_block.start_y, second_block.start_y)
        new_end_y == Max2(first_block.end_y, second_block.end_y)
        new_width == new_end_x - new_start_x
        new_char_count == first_block.char_count + second_block.char_count + 1
        cw1 == Get(first_block, "character_width", None)
        cw2 == Get(second_block, "character_width", None)
    IN  [text |-> first_block.text \o <<" ">> \o second_block.text,
         start_x |-> new_start_x,
         end_x |-> new_end_x,
         start_y |-> new_start_y,
         end_y |-> new_end_y,
         mid_x |-> Round(new_start_x + new_end_x, 2),
         mid_y |-> Round(new_start_y + new_end_y, 2),
         \* int(round((start_y + end_y) / 2 + start_x / 50))
         mid_y_x |-> KeyScale * Round(25 * (new_start_y + new_end_y) + new_start_x,
                                      KeyScale),
         height |-> new_end_y - new_start_y,
         confidence |-> Max2(Get(first_block, "confidence", 0),
                             Get(second_block, "confidence", 0)),
         char_count |-> new_char_count,
         word_count |-> first_block.word_count + second_block.word_count,
         source_quadrant |-> Get(first_block, "source_quadrant", "unknown"),
         width |-> new_width,
         character_width |->
             IF new_char_count > 0 THEN Some(Round(new_width, new_char_count))
             ELSE IF Truthy(cw1) THEN cw1 ELSE cw2,
         prev_mid_y_diff |-> None,
         prev_horizontal_gap |-> None,
         prev_vertical_gap |-> None,
         prev_overlap_x |-> None,
         prev_overlap_y |-> None,
         prev_distance |-> None]

merge_two_blocks(block1, block2) ==
    LET first_block == IF block1.start_x <= block2.start_x THEN block1 ELSE block2
        second_block == IF block1.start_x <= block2.start_x THEN block2 ELSE block1
        new_start_x == Min2(first_block.start_x, second_block.start_x)
        new_end_x == Max2(first_block.end_x, second_block.end_x)
        new_start_y == Min2(first_block.start_y, second_block.start_y)
        new_end_y == Max2(first_block.end_y, second_block.end_y)
        new_width == new_end_x - new_start_x
        new_char_count == first_block.char_count + second_block.char_count + 1
        cw1 == Get(first_block, "character_width", None)
        cw2 == Get(second_block, "character_width", None)
    IN  [text |-> first_block.text \o <<" ">> \o second_block.text,
         start_x |-> new_start_x,
         end_x |-> new_end_x,
         start_y |-> new_start_y,
         end_y |-> new_end_y,
         mid_x |-> Round(new_start_x + new_end_x, 2),
         mid_y |-> Round(new_start_y + new_end_y, 2),
         \* int(round((start_y + end_y) / 2 + start_x / 50))
         mid_y_x |-> KeyScale * Round(25 * (new_start_y + new_end_y) + new_start_x,
                                      KeyScale),
         height |-> new_end_y - new_start_y,
         confidence |-> Max2(Get(first_block, "confidence", 0),
                             Get(second_block, "confidence", 0)),
         char_count |-> new_char_count,
         word_count |-> first_block.word_count + second_block.word_count,
         source_quadrant |-> Get(first_block, "source_quadrant", "unknown"),
         width |-> new_width,
         character_width |->
             IF new_char_count > 0 THEN Some(Round(new_width, new_char_count))
             ELSE IF Truthy(cw1) THEN cw1 ELSE cw2,
         prev_mid_y_diff |-> None,
         prev_horizontal_gap |-> None,
         prev_vertical_gap |-> None,
         prev_overlap_x |-> None,
         prev_overlap_y |-> None,
         prev_distance |-> None]

AdaptiveFallbackCharWidth == 36
LegacyFallbackCharWidth == 50

\* Variant: the fallback replaces a missing width only.
CharWidthOrMissing(block, fallback) ==
    LET cw == Get(block, "character_width", None)
    IN  IF IsNone(cw) THEN fallback ELSE Val(cw)

\* character_width with the fallback used when it is None or 0.
CharWidthOr(block, fallback) ==
    LET cw == Get(block, "character_width", None)
    IN  IF IsNone(cw) \/ Val(cw) = 0 THEN fallback ELSE Val(cw)

\* thresholds is None or Some(record); the result is the pair of the source:
\* should_merge and the gap (None when not merging).
should_merge_blocks(ref_block, current_block, thresholds) ==
    LET adaptive == ~IsNone(thresholds)
        fallback == IF adaptive THEN AdaptiveFallbackCharWidth
                    ELSE LegacyFallbackCharWidth
        ref_char_width == CharWidthOr(ref_block, fallback)
        current_char_width == CharWidthOr(current_block, fallback)
        \* TScale * vertical_tolerance
        vertical_tolerance ==
            IF adaptive THEN Val(thresholds).vertical_merge_tolerance
            ELSE TScale * Min2(ref_char_width, current_char_width)
        \* 2 * horizontal_gap_threshold
        horizontal_gap_threshold2 ==
            IF adaptive THEN 3 * (ref_char_width + current_char_width)
            ELSE 4 * Min2(ref_char_width, current_char_width)
        mid_y_diff == Abs(current_block.mid_y - ref_block.mid_y)
        gap == IF current_block.start_x < ref_block.start_x
               THEN ref_block.start_x - current_block.end_x
               ELSE current_block.start_x - ref_block.end_x
    IN  IF TScale * mid_y_diff >= vertical_tolerance
        THEN [should_merge |-> FALSE, gap |-> None]
        ELSE IF 2 * gap < horizontal_gap_threshold2
        THEN [should_merge |-> TRUE, gap |-> Some(gap)]
        ELSE [should_merge |-> FALSE, gap |-> None]

max_lookahead == 20

\* Variant: removes the element before the position given.
RemoveBefore(s, j) ==
    [k \in 1..(Len(s) - 1) |-> IF k < j - 1 THEN s[k] ELSE s[k + 1]]

RemoveAt(s, j) == [k \in 1..(Len(s) - 1) |-> IF k < j THEN s[k] ELSE s[k + 1]]

\* Variant of the while loop that moves on to the next reference after a
\* merge instead of scanning again with the merged Line.
RECURSIVE MergeLoopNoRescan(_, _, _, _)
MergeLoopNoRescan(merged_blocks, i, thresholds, merges) ==
    IF i > Len(merged_blocks) THEN [blocks |-> merged_blocks, merges |-> merges]
    ELSE
      LET ref_block == merged_blocks[i]
          window == (i + 1)..Min2(i + max_lookahead, Len(merged_blocks))
          hits == {j \in window :
                     should_merge_blocks(ref_block, merged_blocks[j],
                                         thresholds).should_merge}
      IN  IF hits = {} THEN MergeLoopNoRescan(merged_blocks, i + 1, thresholds, merges)
          ELSE LET j == SetMin(hits)
                   merged_block == merge_two_blocks(ref_block, merged_blocks[j])
               IN  MergeLoopNoRescan(RemoveAt([merged_blocks EXCEPT ![i] = merged_block], j),
                                     i + 1, thresholds, merges + 1)

\* Variant of the while loop whose scan has no lookahead limit.
RECURSIVE MergeLoopUnbounded(_, _, _, _)
MergeLoopUnbounded(merged_blocks, i, thresholds, merges) ==
    IF i > Len(merged_blocks) THEN [blocks |-> merged_blocks, merges |-> merges]
    ELSE
      LET ref_block == merged_blocks[i]
          window == (i + 1)..Len(merged_blocks)
          hits == {j \in window :
                     should_merge_blocks(ref_block, merged_blocks[j],
                                         thresholds).should_merge}
      IN  IF hits = {} THEN MergeLoopUnbounded(merged_blocks, i + 1, thresholds, merges)
          ELSE LET j == SetMin(hits)
                   merged_block == merge_two_blocks(ref_block, merged_blocks[j])
               IN  MergeLoopUnbounded(RemoveAt([merged_blocks EXCEPT ![i] = merged_block], j),
                                      i, thresholds, merges + 1)

\* The while loop of merge_blocks_recursive at reference position i (1-based);
\* merges counts the merges performed so far (a history counter).
RECURSIVE MergeLoop(_, _, _, _)
MergeLoop(merged_blocks, i, thresholds, merges) ==
    IF i > Len(merged_blocks) THEN [blocks |-> merged_blocks, merges |-> merges]
    ELSE
      LET ref_block == merged_blocks[i]
          window == (i + 1)..Min2(i + max_lookahead, Len(merged_blocks))
          hits == {j \in window :
                     should_merge_blocks(ref_block, merged_blocks[j],
                                         thresholds).should_merge}
      IN  IF hits = {} THEN MergeLoop(merged_blocks, i + 1, thresholds, merges)
          ELSE LET j == SetMin(hits)
                   merged_block == merge_two_blocks(ref_block, merged_blocks[j])
               IN  MergeLoop(RemoveAt([merged_blocks EXCEPT ![i] = merged_block], j),
                             i, thresholds, merges + 1)

MergeRun(blocks, thresholds) ==
    IF Len(blocks) < 2 THEN [blocks |-> blocks, merges |-> 0]
    ELSE MergeLoop(blocks, 1, thresholds, 0)

merge_blocks_recursive(blocks, thresholds) == MergeRun(blocks, thresholds).blocks

\* Variant of merge_horizontal_for_page that estimates the thresholds again
\* from the merged Lines instead of passing the stage 5 record through.
MergeHorizontalReestimating(page_data) ==
    LET thresholds == page_data.adaptive_thresholds
        blocks == SortByKey(page_data.blocks, "mid_y_x")
        merged_blocks == SortByKey(merge_blocks_recursive(blocks, thresholds),
                                   "mid_y_x")
        with_metrics == calculate_block_metrics(merged_blocks)
    IN  [page_number |-> page_data.page_number,
         total_blocks |-> Len(with_metrics),
         adaptive_thresholds |-> Some(calculate_adaptive_thresholds(with_metrics)),
         blocks |-> with_metrics]

merge_horizontal_for_page(page_data) ==
    LET thresholds == page_data.adaptive_thresholds
        blocks == SortByKey(page_data.blocks, "mid_y_x")
        merged_blocks == SortByKey(merge_blocks_recursive(blocks, thresholds),
                                   "mid_y_x")
        with_metrics == calculate_block_metrics(merged_blocks)
    IN  [page_number |-> page_data.page_number,
         total_blocks |-> Len(with_metrics),
         adaptive_thresholds |-> thresholds,
         blocks |-> with_metrics]

\* Number of merges merge_horizontal_for_page performs on page_data.
MergeCount(page_data) ==
    MergeRun(SortByKey(page_data.blocks, "mid_y_x"),
             page_data.adaptive_thresholds).merges

(***************************************************************************)
(* Stage 7: vertical buckets (Block Builder)                               *)
(***************************************************************************)
\* "True", "False", or "TypeError" when a None character_width is compared.
should_add_to_bucket(bucket_last_element, current_element, thresholds) ==
    LET adaptive == ~IsNone(thresholds)
        cw_ref == Get(bucket_last_element, "character_width", Some(50))
        cw_cur == Get(current_element, "character_width", Some(50))
        h_ref == LET h == Get(bucket_last_element, "height", 50)
                 IN  IF h <= 0 THEN 50 ELSE h
        h_cur == LET h == Get(current_element, "height", 50)
                 IN  IF h <= 0 THEN 50 ELSE h
        w_ref == IF Val(cw_ref) <= 0 THEN 50 ELSE Val(cw_ref)
        w_cur == IF Val(cw_cur) <= 0 THEN 50 ELSE Val(cw_cur)
        \* TScale * vertical_threshold and TScale * horizontal_threshold
        vertical_threshold ==
            IF adaptive THEN Val(thresholds).vertical_bucket_tolerance
            ELSE 28 * Min2(h_ref, h_cur)
        horizontal_threshold ==
            IF adaptive THEN Val(thresholds).horizontal_bucket_tolerance
            ELSE TScale * Min2(w_ref, w_cur)
        mid_y_distance == Abs(current_element.mid_y - bucket_last_element.mid_y)
        start_x_diff == Abs(current_element.start_x - bucket_last_element.start_x)
        mid_x_diff == Abs(current_element.mid_x - bucket_last_element.mid_x)
        end_x_diff == Abs(current_element.end_x - bucket_last_element.end_x)
    IN  IF ~adaptive /\ (IsNone(cw_ref) \/ IsNone(cw_cur)) THEN "TypeError"
        ELSE IF TScale * mid_y_distance >= vertical_threshold THEN "False"
        ELSE IF TScale * start_x_diff < 2 * horizontal_threshold THEN "True"
        ELSE IF TScale * mid_x_diff < horizontal_threshold THEN "True"
        ELSE IF TScale * end_x_diff < horizontal_threshold THEN "True"
        ELSE "False"

\* Variant of the for loop of create_buckets that puts the element into the
\* most recently created bucket that accepts it instead of the earliest one.
RECURSIVE BucketLoopLastFit(_, _, _, _)
BucketLoopLastFit(blocks, i, buckets, thresholds) ==
    IF i > Len(blocks) THEN [raised |-> FALSE, buckets |-> buckets]
    ELSE
      LET current_element == blocks[i]
          res(k) == should_add_to_bucket(buckets[k][Len(buckets[k])],
                                         current_element, thresholds)
          stops == {k \in DOMAIN buckets : res(k) # "False"}
      IN  IF stops = {}
          THEN BucketLoopLastFit(blocks, i + 1,
                                 Append(buckets, <<current_element>>), thresholds)
          ELSE LET k == SetMax(stops)
               IN  IF res(k) = "TypeError" THEN [raised |-> TRUE, buckets |-> <<>>]
                   ELSE BucketLoopLastFit(blocks, i + 1,
                                   [buckets EXCEPT ![k] = Append(@, current_element)],
                                   thresholds)

\* The for loop of create_buckets at element i; buckets is a list of lists.
\* raised is TRUE when should_add_to_bucket raises a TypeError.
RECURSIVE BucketLoop(_, _, _, _)
BucketLoop(blocks, i, buckets, thresholds) ==
    IF i > Len(blocks) THEN [raised |-> FALSE, buckets |-> buckets]
    ELSE
      LET current_element == blocks[i]
          res(k) == should_add_to_bucket(buckets[k][Len(buckets[k])],
                                         current_element, thresholds)
          stops == {k \in DOMAIN buckets : res(k) # "False"}
      IN  IF stops = {}
          THEN BucketLoop(blocks, i + 1, Append(buckets, <<current_element>>),
                          thresholds)
          ELSE LET k == SetMin(stops)
               IN  IF res(k) = "TypeError" THEN [raised |-> TRUE, buckets |-> <<>>]
                   ELSE BucketLoop(blocks, i + 1,
                                   [buckets EXCEPT ![k] = Append(@, current_element)],
                                   thresholds)

\* Variant: the first Block is seeded without the emptiness test, which
\* raises for a page without Lines.
CreateBucketsUnguarded(blocks, thresholds) ==
    IF blocks = <<>> THEN [raised |-> TRUE, buckets |-> <<>>]
    ELSE BucketLoop(blocks, 2, << <<blocks[1]>> >>, thresholds)

CreateBucketsRun(blocks, thresholds) ==
    IF blocks = <<>> THEN [raised |-> FALSE, buckets |-> <<>>]
    ELSE BucketLoop(blocks, 2, << <<blocks[1]>> >>, thresholds)

create_buckets(blocks, thresholds) == CreateBucketsRun(blocks, thresholds).buckets

\* Variant: the sort key of a bucket is the largest key of its members.
BucketInfoMaxKey(idx, bucket) ==
    LET bucket_start_x == SetMin({b.start_x : b \in Range(bucket)})
        bucket_end_x == SetMax({b.end_x : b \in Range(bucket)})
        bucket_start_y == SetMin({b.start_y : b \in Range(bucket)})
        bucket_end_y == SetMax({b.end_y : b \in Range(bucket)})
    IN  [bucket_id |-> idx,
         num_blocks |-> Len(bucket),
         start_x |-> bucket_start_x,
         end_x |-> bucket_end_x,
         start_y |-> bucket_start_y,
         end_y |-> bucket_end_y,
         mid_y |-> bucket_start_y + bucket_end_y,
         mid_x |-> bucket_start_x + bucket_end_x,
         min_mid_y |-> SetMin({b.mid_y : b \in Range(bucket)}),
         min_mid_y_x |-> SetMax({b.mid_y_x : b \in Range(bucket)}),
         width |-> bucket_end_x - bucket_start_x,
         height |-> bucket_end_y - bucket_start_y,
         blocks |-> bucket]

\* bucket mid_x and mid_y are kept in halves (2 * the Python value).
BucketInfo(idx, bucket) ==
    LET bucket_start_x == SetMin({b.start_x : b \in Range(bucket)})
        bucket_end_x == SetMax({b.end_x : b \in Range(bucket)})
        bucket_start_y == SetMin({b.start_y : b \in Range(bucket)})
        bucket_end_y == SetMax({b.end_y : b \in Range(bucket)})
    IN  [bucket_id |-> idx,
         num_blocks |-> Len(bucket),
         start_x |-> bucket_start_x,
         end_x |-> bucket_end_x,
         start_y |-> bucket_start_y,
         end_y |-> bucket_end_y,
         mid_y |-> bucket_start_y + bucket_end_y,
         mid_x |-> bucket_start_x + bucket_end_x,
         min_mid_y |-> SetMin({b.mid_y : b \in Range(bucket)}),
         min_mid_y_x |-> SetMin({b.mid_y_x : b \in Range(bucket)}),
         width |-> bucket_end_x - bucket_start_x,
         height |-> bucket_end_y - bucket_start_y,
         blocks |-> bucket]

process_page_buckets(page_data) ==
    LET thresholds == page_data.adaptive_thresholds
        blocks == SortByKey(page_data.blocks, "mid_y_x")
        buckets == create_buckets(blocks, thresholds)
    IN  [page_number |-> page_data.page_number,
         total_blocks |-> Len(blocks),
         total_buckets |-> Len(buckets),
         buckets |-> SortByKey([k \in DOMAIN buckets |->
                                   BucketInfo(k - 1, buckets[k])],
                               "min_mid_y_x"),
         adaptive_thresholds |-> thresholds]

\* process_page_buckets raises instead of returning.
ProcessPageBucketsRaises(page_data) ==
    CreateBucketsRun(SortByKey(page_data.blocks, "mid_y_x"),
                     page_data.adaptive_thresholds).raised

(***************************************************************************)
(* Stage 8: horizontal buckets (Segment Builder)                           *)
(***************************************************************************)
RECURSIVE SumSeq(_)
SumSeq(s) == IF s = <<>> THEN 0 ELSE Head(s) + SumSeq(Tail(s))

\* calculate_avg_block_height as the fraction <<total, count>>.
calculate_avg_block_height(vertical_bucket) ==
    LET blocks == vertical_bucket.blocks
    IN  IF blocks = <<>> THEN <<50, 1>>
        ELSE <<SumSeq([i \in DOMAIN blocks |-> Get(blocks[i], "height", 50)]),
               Len(blocks)>>

\* sum() over a None character_width raises a TypeError.
AvgCharWidthRaises(vertical_bucket) ==
    \E i \in DOMAIN vertical_bucket.blocks :
        IsNone(Get(vertical_bucket.blocks[i], "character_width", Some(20)))

\* calculate_avg_char_width as the fraction <<total, count>>.
calculate_avg_char_width(vertical_bucket) ==
    LET blocks == vertical_bucket.blocks
    IN  IF blocks = <<>> THEN <<20, 1>>
        ELSE <<SumSeq([i \in DOMAIN blocks |->
                          Val(Get(blocks[i], "character_width", Some(20)))]),
               Len(blocks)>>

\* "True", "False", or "TypeError" when calculate_avg_char_width raises.
should_add_to_horizontal_bucket(horizontal_bucket, current_vb) ==
    LET ref_vb == horizontal_bucket[Len(horizontal_bucket)]
        hr == calculate_avg_block_height(ref_vb)
        hc == calculate_avg_block_height(current_vb)
        den_h == 2 * hr[2] * hc[2]
        \* den_h * height_threshold
        height_threshold == hr[1] * hc[2] + hc[1] * hr[2]
        vertical_gap == current_vb.start_y - ref_vb.end_y
        wr == calculate_avg_char_width(ref_vb)
        wc == calculate_avg_char_width(current_vb)
        den_w == 2 * wr[2] * wc[2]
        \* den_w * char_width_threshold
        char_width_threshold == wr[1] * wc[2] + wc[1] * wr[2]
        start_x_diff == Abs(current_vb.start_x - ref_vb.start_x)
        \* bucket mid_x is kept in halves
        mid_x_diff2 == Abs(current_vb.mid_x - ref_vb.mid_x)
        end_x_diff == Abs(current_vb.end_x - ref_vb.end_x)
    IN  IF den_h * vertical_gap >= height_threshold THEN "False"
        ELSE IF AvgCharWidthRaises(ref_vb) \/ AvgCharWidthRaises(current_vb)
        THEN "TypeError"
        ELSE IF den_w * start_x_diff < char_width_threshold THEN "True"
        ELSE IF den_w * mid_x_diff2 < 2 * char_width_threshold THEN "True"
        ELSE IF den_w * end_x_diff < char_width_threshold THEN "True"
        ELSE "False"

\* Variant of the for loop of create_horizontal_buckets without the break:
\* the vertical bucket is put into every horizontal bucket that accepts it.
RECURSIVE HBucketLoopEveryFit(_, _, _)
HBucketLoopEveryFit(vertical_buckets, i, horizontal_buckets) ==
    IF i > Len(vertical_buckets)
    THEN [raised |-> FALSE, buckets |-> horizontal_buckets]
    ELSE
      LET current_vb == vertical_buckets[i]
          res(k) == should_add_to_horizontal_bucket(horizontal_buckets[k], current_vb)
          stops == {k \in DOMAIN horizontal_buckets : res(k) # "False"}
      IN  IF stops = {}
          THEN HBucketLoopEveryFit(vertical_buckets, i + 1,
                                   Append(horizontal_buckets, <<current_vb>>))
          ELSE IF \E k \in stops : res(k) = "TypeError"
               THEN [raised |-> TRUE, buckets |-> <<>>]
               ELSE HBucketLoopEveryFit(vertical_buckets, i + 1,
                        [k \in DOMAIN horizontal_buckets |->
                            IF k \in stops THEN Append(horizontal_buckets[k], current_vb)
                            ELSE horizontal_buckets[k]])

\* Variant of the for loop of create_horizontal_buckets that puts the
\* vertical bucket into the most recently created horizontal bucket that
\* accepts it instead of the earliest one.
RECURSIVE HBucketLoopLastFit(_, _, _)
HBucketLoopLastFit(vertical_buckets, i, horizontal_buckets) ==
    IF i > Len(vertical_buckets)
    THEN [raised |-> FALSE, buckets |-> horizontal_buckets]
    ELSE
      LET current_vb == vertical_buckets[i]
          res(k) == should_add_to_horizontal_bucket(horizontal_buckets[k], current_vb)
          stops == {k \in DOMAIN horizontal_buckets : res(k) # "False"}
      IN  IF stops = {}
          THEN HBucketLoopLastFit(vertical_buckets, i + 1,
                                  Append(horizontal_buckets, <<current_vb>>))
          ELSE LET k == SetMax(stops)
               IN  IF res(k) = "TypeError" THEN [raised |-> TRUE, buckets |-> <<>>]
                   ELSE HBucketLoopLastFit(vertical_buckets, i + 1,
                                           [horizontal_buckets EXCEPT
                                               ![k] = Append(@, current_vb)])

\* The for loop of create_horizontal_buckets at vertical bucket i.
RECURSIVE HBucketLoop(_, _, _)
HBucketLoop(vertical_buckets, i, horizontal_buckets) ==
    IF i > Len(vertical_buckets)
    THEN [raised |-> FALSE, buckets |-> horizontal_buckets]
    ELSE
      LET current_vb == vertical_buckets[i]
          res(k) == should_add_to_horizontal_bucket(horizontal_buckets[k], current_vb)
          stops == {k \in DOMAIN horizontal_buckets : res(k) # "False"}
      IN  IF stops = {}
          THEN HBucketLoop(vertical_buckets, i + 1,
                           Append(horizontal_buckets, <<current_vb>>))
          ELSE LET k == SetMin(stops)
               IN  IF res(k) = "TypeError" THEN [raised |-> TRUE, buckets |-> <<>>]
                   ELSE HBucketLoop(vertical_buckets, i + 1,
                                    [horizontal_buckets EXCEPT
                                        ![k] = Append(@, current_vb)])

CreateHorizontalBucketsRun(vertical_buckets) ==
    IF vertical_buckets = <<>> THEN [raised |-> FALSE, buckets |-> <<>>]
    ELSE HBucketLoop(vertical_buckets, 2, << <<vertical_buckets[1]>> >>)

create_horizontal_buckets(vertical_buckets) ==
    CreateHorizontalBucketsRun(vertical_buckets).buckets

NormalizeBucket(bucket, page_width, page_height) ==
    Ext(bucket,
        [left_edge |-> Round(100 * bucket.start_x, page_width),
         right_edge |-> Round(100 * bucket.end_x, page_width),
         top_edge |-> Round(100 * bucket.start_y, page_height),
         bottom_edge |-> Round(100 * bucket.end_y, page_height)])

normalize_bucket_coordinates(bucket_data, page_width, page_height) ==
    LET pw == IF page_width = 0 THEN RefPageWidth ELSE page_width
        ph == IF page_height = 0 THEN RefPageHeight ELSE page_height
    IN  [i \in DOMAIN bucket_data |-> NormalizeBucket(bucket_data[i], pw, ph)]

\* bucket mid_x and mid_y are kept in halves (2 * the Python value).
HBucketInfo(idx, h_bucket) ==
    LET bucket_start_x == SetMin({vb.start_x : vb \in Range(h_bucket)})
        bucket_end_x == SetMax({vb.end_x : vb \in Range(h_bucket)})
        bucket_start_y == SetMin({vb.start_y : vb \in Range(h_bucket)})
        bucket_end_y == SetMax({vb.end_y : vb \in Range(h_bucket)})
    IN  [horizontal_bucket_id |-> idx,
         num_vertical_buckets |-> Len(h_bucket),
         num_text_blocks |-> SumSeq([i \in DOMAIN h_bucket |-> h_bucket[i].num_blocks]),
         start_x |-> bucket_start_x,
         end_x |-> bucket_end_x,
         start_y |-> bucket_start_y,
         end_y |-> bucket_end_y,
         mid_x |-> bucket_start_x + bucket_end_x,
         mid_y |-> bucket_start_y + bucket_end_y,
         min_mid_y_x |-> SetMin({vb.min_mid_y_x : vb \in Range(h_bucket)}),
         width |-> bucket_end_x - bucket_start_x,
         height |-> bucket_end_y - bucket_start_y,
         vertical_buckets |-> h_bucket]

process_page_horizontal_buckets(page_data) ==
    LET vertical_buckets == page_data.buckets
        horizontal_buckets == create_horizontal_buckets(vertical_buckets)
        bucket_data == SortByKey([k \in DOMAIN horizontal_buckets |->
                                     HBucketInfo(k - 1, horizontal_buckets[k])],
                                 "min_mid_y_x")
    IN  [page_number |-> page_data.page_number,
         total_text_blocks |-> SumSeq([k \in DOMAIN bucket_data |->
                                          bucket_data[k].num_text_blocks]),
         total_vertical_buckets |-> SumSeq([k \in DOMAIN bucket_data |->
                                               bucket_data[k].num_vertical_buckets]),
         total_horizontal_buckets |-> Len(horizontal_buckets),
         horizontal_buckets |-> normalize_bucket_coordinates(bucket_data,
                                    RefPageWidth, RefPageHeight),
         adaptive_thresholds |-> page_data.adaptive_thresholds]

\* process_page_horizontal_buckets raises instead of returning.
ProcessPageHorizontalBucketsRaises(page_data) ==
    CreateHorizontalBucketsRun(page_data.buckets).raised

(***************************************************************************)
(* Stage 9: vertical column stacking (Reorderer)                           *)
(***************************************************************************)
AlignThreshold == 3
GapThreshold == 3

is_vertically_aligned(ref_bucket, current_bucket, threshold) ==
    LET left_diff == Abs(current_bucket.left_edge - ref_bucket.left_edge)
        right_diff == Abs(current_bucket.right_edge - ref_bucket.right_edge)
    IN  left_diff <= threshold \/ right_diff <= threshold

\* Variant: a Segment is close only when it starts at or below the bottom of
\* the reference.
IsCloseBelow(ref_bucket, current_bucket, threshold) ==
    LET vertical_gap == current_bucket.top_edge - ref_bucket.bottom_edge
    IN  0 <= vertical_gap /\ vertical_gap <= threshold

is_vertically_close(ref_bucket, current_bucket, threshold) ==
    LET vertical_gap == current_bucket.top_edge - ref_bucket.bottom_edge
    IN  vertical_gap <= threshold

\* Variant: inserts at the end of the list.
InsertAtEnd(s, k, x) == Append(s, x)

InsertAt(s, k, x) ==
    [n \in 1..(Len(s) + 1) |-> IF n < k THEN s[n] ELSE IF n = k THEN x ELSE s[n - 1]]

\* ref_bucket and current_bucket match: current is moved after ref.
StackMatch(ref_bucket, current_bucket) ==
    /\ is_vertically_aligned(ref_bucket, current_bucket, AlignThreshold)
    /\ is_vertically_close(ref_bucket, current_bucket, GapThreshold)

\* buckets.pop(current_index); buckets.insert(ref_index + 1, current_bucket)
\* with the 0-based indices of the source.
MoveAfterRef(bs, ref, cur) ==
    InsertAt(RemoveAt(bs, cur + 1), ref + 2, bs[cur + 1])

\* Variant: ids are left as stage 8 assigned them.
KeepIds(reordered_buckets) == reordered_buckets

\* The id update of process_page: ids follow the new order.
Renumber(reordered_buckets) ==
    [k \in DOMAIN reordered_buckets |->
        [reordered_buckets[k] EXCEPT !.horizontal_bucket_id = k - 1]]

ProcessPageOutput(page_data, reordered_buckets) ==
    [page_number |-> page_data.page_number,
     total_text_blocks |-> page_data.total_text_blocks,
     total_vertical_buckets |-> page_data.total_vertical_buckets,
     total_horizontal_buckets |-> page_data.total_horizontal_buckets,
     horizontal_buckets |-> Renumber(reordered_buckets),
     adaptive_thresholds |-> page_data.adaptive_thresholds]

\* The two nested while loops of vertical_column_stack_sort, run to the end
\* from ref_index and current_index (0-based as in the source).
RECURSIVE StackLoop(_, _, _)
StackLoop(buckets, ref, cur) ==
    IF ref >= Len(buckets) THEN buckets
    ELSE IF cur >= Len(buckets) THEN StackLoop(buckets, ref + 1, ref + 2)
    ELSE IF StackMatch(buckets[ref + 1], buckets[cur + 1])
         THEN StackLoop(MoveAfterRef(buckets, ref, cur), ref + 1, ref + 2)
         ELSE StackLoop(buckets, ref, cur + 1)

vertical_column_stack_sort(horizontal_buckets) ==
    IF horizontal_buckets = <<>> THEN <<>>
    ELSE StackLoop(horizontal_buckets, 0, 1)

\* Variant of process_page whose result depends on the page number: only the
\* first page of a document is reordered.
ProcessPageFirstOnly(page_data) ==
    ProcessPageOutput(page_data,
                      IF page_data.page_number = 1
                      THEN vertical_column_stack_sort(page_data.horizontal_buckets)
                      ELSE page_data.horizontal_buckets)

process_page(page_data) ==
    ProcessPageOutput(page_data,
                      vertical_column_stack_sort(page_data.horizontal_buckets))

(***************************************************************************)
(* Stage 10: simplified pages for the LLM                                  *)
(***************************************************************************)
\* mid_x = (left_edge + right_edge) / 2 is compared in halves.
derive_position(left_edge, right_edge) ==
    IF left_edge + right_edge < 2 * 33 THEN "left"
    ELSE IF left_edge + right_edge < 2 * 67 THEN "center"
    ELSE "right"

derive_width_category(left_edge, right_edge) ==
    LET width == right_edge - left_edge
    IN  IF width < 40 THEN "narrow"
        ELSE IF width < 70 THEN "medium"
        ELSE "wide"

\* The for loop of calculate_y_groups over sorted_indices from position k;
\* y_groups maps a 1-based index of horizontal_buckets to its group id.
RECURSIVE YGroupLoop(_, _, _, _, _, _)
YGroupLoop(sorted_indices, k, tolerance, current_group_id, current_group_y, y_groups) ==
    IF k > Len(sorted_indices) THEN y_groups
    ELSE
      LET idx == sorted_indices[k].idx
          bucket_y == sorted_indices[k].top_edge
      IN  IF IsNone(current_group_y)
          THEN YGroupLoop(sorted_indices, k + 1, tolerance, current_group_id,
                          Some(bucket_y), [y_groups EXCEPT ![idx] = current_group_id])
          ELSE IF Abs(bucket_y - Val(current_group_y)) <= tolerance
          THEN YGroupLoop(sorted_indices, k + 1, tolerance, current_group_id,
                          current_group_y,
                          [y_groups EXCEPT ![idx] = current_group_id])
          ELSE YGroupLoop(sorted_indices, k + 1, tolerance, current_group_id + 1,
                          Some(bucket_y),
                          [y_groups EXCEPT ![idx] = current_group_id + 1])

calculate_y_groups(horizontal_buckets, tolerance) ==
    LET sorted_indices ==
            SortByKey([i \in DOMAIN horizontal_buckets |->
                          [idx |-> i, top_edge |-> horizontal_buckets[i].top_edge]],
                      "top_edge")
    IN  YGroupLoop(sorted_indices, 1, tolerance, 0, None,
                   [i \in DOMAIN horizontal_buckets |-> 0])

\* str.strip() for texts whose only whitespace is the space character.
RECURSIVE Strip(_)
Strip(text) ==
    IF text = <<>> THEN text
    ELSE IF Head(text) = " " THEN Strip(Tail(text))
    ELSE IF text[Len(text)] = " " THEN Strip(SubSeq(text, 1, Len(text) - 1))
    ELSE text

\* confidence_avg is kept as round(confidence_avg, 2) in hundredths.
flatten_texts_and_calculate_stats(horizontal_bucket) ==
    LET vertical_buckets == Get(horizontal_bucket, "vertical_buckets", <<>>)
        blocks == SelectSeq(
            Concat([v \in DOMAIN vertical_buckets |->
                       Get(vertical_buckets[v], "blocks", <<>>)]),
            LAMBDA block : Strip(Get(block, "text", <<>>)) # <<>>)
        text(i) == Strip(Get(blocks[i], "text", <<>>))
        confidences == [i \in DOMAIN blocks |-> Get(blocks[i], "confidence", ConfScale)]
    IN  [texts |-> [i \in DOMAIN blocks |-> text(i)],
         confidence_avg |-> IF confidences = <<>> THEN 0
                            ELSE Round(SumSeq(confidences), Len(confidences)),
         char_count |-> SumSeq([i \in DOMAIN blocks |->
                                   Get(blocks[i], "char_count", Len(text(i)))]),
         word_count |-> SumSeq([i \in DOMAIN blocks |->
                                   Get(blocks[i], "word_count", WordCount(text(i)))])]

simplify_bucket(horizontal_bucket, bucket_index, y_group_id) ==
    LET left_edge == Get(horizontal_bucket, "left_edge", 0)
        right_edge == Get(horizontal_bucket, "right_edge", 100)
        top_edge == Get(horizontal_bucket, "top_edge", 0)
        bottom_edge == Get(horizontal_bucket, "bottom_edge", 100)
        stats == flatten_texts_and_calculate_stats(horizontal_bucket)
    IN  [id |-> bucket_index,
         left_edge |-> left_edge,
         top_edge |-> top_edge,
         right_edge |-> right_edge,
         bottom_edge |-> bottom_edge,
         position |-> derive_position(left_edge, right_edge),
         width_category |-> derive_width_category(left_edge, right_edge),
         y_group_id |-> y_group_id,
         confidence_avg |-> stats.confidence_avg,
         char_count |-> stats.char_count,
         word_count |-> stats.word_count,
         texts |-> stats.texts]

\* process_page_file on the content of a stage 9 file: the written output and
\* the simplified buckets returned for the next iteration.
process_page_file(data, last_bucket_from_prev_page) ==
    LET horizontal_buckets == Get(data, "horizontal_buckets", <<>>)
        y_group_mapping == calculate_y_groups(horizontal_buckets, 5)
        simplified_buckets ==
            [i \in DOMAIN horizontal_buckets |->
                simplify_bucket(horizontal_buckets[i], i - 1, y_group_mapping[i])]
    IN  [output_data |->
            [page_number |-> data.page_number,
             total_buckets |-> Len(simplified_buckets),
             last_bucket_previous_page |-> last_bucket_from_prev_page,
             buckets |-> simplified_buckets],
         simplified_buckets |-> simplified_buckets]

\* Variant: the files in the order of their names, as sorted() orders the
\* paths page_<N>_vertical_stacked.json; the character after the number
\* ("_") is greater than every digit.  Page numbers are below 100.
SortedByName(page_numbers) ==
    LET digits(n) == IF n < 10 THEN <<n, 10>> ELSE <<n \div 10, n % 10, 10>>
        before(a, b) ==
            \E k \in 1..Len(digits(a)) :
                /\ k <= Len(digits(b))
                /\ digits(a)[k] < digits(b)[k]
                /\ \A j \in 1..(k - 1) : digits(a)[j] = digits(b)[j]
    IN  [k \in 1..Cardinality(page_numbers) |->
            CHOOSE n \in page_numbers :
                Cardinality({x \in page_numbers : before(x, n)}) = k - 1]

\* sorted(glob, key = the page number in the file name): the stage 9 files in
\* ascending page number.
SortedByPageNumber(page_numbers) ==
    [k \in 1..Cardinality(page_numbers) |->
        CHOOSE n \in page_numbers :
            Cardinality({x \in page_numbers : x < n}) = k - 1]

(***************************************************************************)
(* Inputs: the OCR detections of the four tiles of one page                *)
(***************************************************************************)
Chars(str) ==
    CASE str = "Hello" -> <<"H", "e", "l", "l", "o">>
      [] str = "World" -> <<"W", "o", "r", "l", "d">>
      [] str = "Below" -> <<"B", "e", "l", "o", "w">>
      [] str = "Right" -> <<"R", "i", "g", "h", "t">>
      [] str = "junk" -> <<"j", "u", "n", "k">>
      [] str = "Big" -> <<"B", "i", "g">>
      [] str = "Txt" -> <<"T", "x", "t">>
      [] str = "Next" -> <<"N", "e", "x", "t">>
      [] str = "small" -> <<"s", "m", "a", "l", "l">>
      [] str = "end" -> <<"e", "n", "d">>
      [] str = "x" -> <<"x">>
      [] str = "y" -> <<"y">>
      [] str = "z" -> <<"z">>
      [] str = "q" -> <<"q">>
      [] OTHER -> <<>>

\* Detections a tile can hold: tile-local pixel boxes of the 2x upscaled tile.
Detections ==
    << [tile |-> "top_left", b |-> OcrBlock(Chars("Hello"), 200, 400, 100, 140, 90)],
       [tile |-> "top_left", b |-> OcrBlock(Chars("World"), 420, 600, 104, 144, 80)],
       [tile |-> "top_left", b |-> OcrBlock(Chars("World"), 1000, 1180, 104, 144, 30)],
       [tile |-> "top_left", b |-> OcrBlock(Chars("x"), 520, 560, 100, 140, 90)],
       [tile |-> "top_left", b |-> OcrBlock(Chars("y"), 580, 660, 100, 140, 90)],
       [tile |-> "top_left", b |-> OcrBlock(Chars(""), 1600, 1640, 100, 140, 90)],
       [tile |-> "top_left", b |-> OcrBlock(Chars("z"), 240, 300, 98, 140, 90)],
       [tile |-> "top_left", b |-> OcrBlock(Chars("Below"), 200, 400, 260, 300, 90)],
       [tile |-> "top_left", b |-> OcrBlock(Chars("junk"), 200, 400, 600, 640, 20)],
       [tile |-> "top_left", b |-> OcrBlock(Chars("Big"), 200, 800, 400, 560, 90)],
       [tile |-> "top_left", b |-> OcrBlock(Chars("Txt"), 200, 800, 600, 760, 90)],
       [tile |-> "top_left", b |-> OcrBlock(Chars("small"), 460, 464, 100, 140, 90)],
       [tile |-> "top_left", b |-> OcrBlock(Chars("Next"), 200, 400, 200, 240, 90)],
       [tile |-> "top_right", b |-> OcrBlock(Chars("Right"), 100, 300, 100, 140, 90)],
       [tile |-> "bottom_left", b |-> OcrBlock(Chars("end"), 200, 400, 3200, 3280, 90)],
       [tile |-> "bottom_right", b |-> OcrBlock(Chars("q"), 100, 300, 100, 140, 90)] >>

\* Rendered page sizes (each tile is upscaled to the page size):
\* Tile names in the order stage 2 writes them to the quadrant metadata.
QuadrantNames == <<"top_left", "top_right", "bottom_left", "bottom_right">>

\* The pages the pipeline is run on: rendered page size in pixels (Letter or
\* A4 at 300 DPI), order of the tiles in the quadrant metadata, tiles whose
\* image file exists, and whether a tile's detections come in pool order.
PageSetups ==
    LET letter == [size |-> <<2550, 3300>>,
                   order |-> QuadrantNames,
                   existing |-> Range(QuadrantNames),
                   reversed |-> FALSE]
    IN  {letter,
         [letter EXCEPT !.reversed = TRUE],
         [letter EXCEPT !.size = <<2481, 3508>>],
         [letter EXCEPT !.order = <<"top_right", "top_left",
                                    "bottom_right", "bottom_left">>],
         [letter EXCEPT !.existing = Range(QuadrantNames) \ {"top_left"}]}

\* The detections of tile name among the chosen ones, in pool order or reversed.
TileOcr(chosen, name, reversed) ==
    LET idx == SelectSeq([i \in DOMAIN Detections |-> i],
                         LAMBDA i : i \in chosen /\ Detections[i].tile = name)
        n == Len(idx)
    IN  [k \in 1..n |-> Detections[idx[IF reversed THEN n + 1 - k ELSE k]].b]

QuadrantMetadata(size, order, existing, chosen, reversed) ==
    [k \in DOMAIN order |->
        [quadrant_name |-> order[k],
         width_px |-> size[1],
         height_px |-> size[2],
         exists |-> order[k] \in existing,
         ocr |-> TileOcr(chosen, order[k], reversed)]]

Pending == [pending |-> TRUE]

\* No document is being processed: there is no page list, no page file and
\* the export loop has not started.
NoDocument ==
    /\ ocr_metadata = <<>>
    /\ store = <<>>
    /\ export_pc = "idle"
    /\ bucket_files = <<>>
    /\ last_bucket_prev_page = None
    /\ llm_ready = <<>>

Init ==
    /\ \E setup \in PageSetups, chosen \in SUBSET (DOMAIN Detections) :
          /\ Cardinality(chosen) <= MaxFrags
          /\ quadrants = QuadrantMetadata(setup.size, setup.order, setup.existing,
                                          chosen, setup.reversed)
    /\ pc = "stage3"
    /\ ocr_results = Pending
    /\ loaded_page_data = Pending
    /\ merged = Pending
    /\ metrics = Pending
    /\ hmerged = Pending
    /\ vbuckets = Pending
    /\ hbuckets = Pending
    /\ stacked = Pending
    /\ stack_buckets = <<>>
    /\ ref_index = 0
    /\ current_index = 0
    /\ moves = {}
    /\ NoDocument

(***************************************************************************)
(* Stages 3 to 8 of one page, each run to completion                       *)
(***************************************************************************)
stack_locals == <<stack_buckets, ref_index, current_index, moves>>

ExtractAllQuadrants ==
    /\ pc = "stage3"
    /\ ocr_results' = extract_all_quadrants(quadrants)
    /\ pc' = "stage4"
    /\ UNCHANGED <<batch_vars, loaded_page_data, quadrants,
                   merged, metrics, hmerged, vbuckets, hbuckets, stacked,
                   stack_locals>>

MergePageQuadrants ==
    /\ pc = "stage4"
    /\ merged' = merge_page_quadrants(ocr_results, MinConfidence)
    /\ loaded_page_data' = InputAfterMerge(ocr_results, MinConfidence)
    /\ pc' = "stage5"
    /\ UNCHANGED <<batch_vars, quadrants, ocr_results, metrics, hmerged, vbuckets,
                   hbuckets, stacked, stack_locals>>

CalculateMetricsForPage ==
    /\ pc = "stage5"
    /\ metrics' = [calculate_metrics_for_page(merged) EXCEPT
                      !.adaptive_thresholds = Some(@)]
    /\ pc' = "stage6"
    /\ UNCHANGED <<batch_vars, loaded_page_data, quadrants,
                   ocr_results, merged, hmerged, vbuckets, hbuckets,
                   stacked, stack_locals>>

MergeHorizontalForPage ==
    /\ pc = "stage6"
    /\ hmerged' = merge_horizontal_for_page(metrics)
    /\ pc' = "stage7"
    /\ UNCHANGED <<batch_vars, loaded_page_data, quadrants,
                   ocr_results, merged, metrics, vbuckets, hbuckets,
                   stacked, stack_locals>>

ProcessPageBuckets ==
    /\ pc = "stage7"
    /\ IF ProcessPageBucketsRaises(hmerged)
       THEN pc' = "error" /\ UNCHANGED vbuckets
       ELSE pc' = "stage8" /\ vbuckets' = process_page_buckets(hmerged)
    /\ UNCHANGED <<batch_vars, loaded_page_data, quadrants,
                   ocr_results, merged, metrics, hmerged, hbuckets,
                   stacked, stack_locals>>

ProcessPageHorizontalBuckets ==
    /\ pc = "stage8"
    /\ IF ProcessPageHorizontalBucketsRaises(vbuckets)
       THEN pc' = "error" /\ UNCHANGED hbuckets
       ELSE pc' = "stage9" /\ hbuckets' = process_page_horizontal_buckets(vbuckets)
    /\ UNCHANGED <<batch_vars, loaded_page_data, quadrants,
                   ocr_results, merged, metrics, hmerged, vbuckets,
                   stacked, stack_locals>>

(***************************************************************************)
(* Stage 9: process_page, one step per loop iteration of                   *)
(* vertical_column_stack_sort (indices are 0-based as in the source)       *)
(***************************************************************************)
pipeline_vars == <<batch_vars, loaded_page_data, quadrants, ocr_results, merged,
                   metrics, hmerged, vbuckets, hbuckets>>

\* process_page is called: the list is copied and ref_index starts at 0.
\* (An empty list returns at once: no loop iteration is enabled for it.)
ProcessPageBegin ==
    /\ pc = "stage9"
    /\ stack_buckets' = hbuckets.horizontal_buckets
    /\ ref_index' = 0
    /\ current_index' = 1
    /\ moves' = {}
    /\ pc' = "stack9"
    /\ UNCHANGED <<pipeline_vars, stacked>>

\* Variant of the match branch: the reference stays where it is and the scan
\* goes on behind the Segment just moved.
StackMoveKeepRef ==
    /\ pc = "stack9"
    /\ ref_index < Len(stack_buckets)
    /\ current_index < Len(stack_buckets)
    /\ StackMatch(stack_buckets[ref_index + 1], stack_buckets[current_index + 1])
    /\ stack_buckets' = MoveAfterRef(stack_buckets, ref_index, current_index)
    /\ ref_index' = ref_index
    /\ current_index' = ref_index + 2
    /\ moves' = moves \cup {<<stack_buckets[ref_index + 1].horizontal_bucket_id,
                             stack_buckets[current_index + 1].horizontal_bucket_id>>}
    /\ UNCHANGED <<pipeline_vars, stacked, pc>>

\* Variant of the match branch: the reference stays where it is and the scan
\* starts again directly behind it.
StackMoveRescan ==
    /\ pc = "stack9"
    /\ ref_index < Len(stack_buckets)
    /\ current_index < Len(stack_buckets)
    /\ StackMatch(stack_buckets[ref_index + 1], stack_buckets[current_index + 1])
    /\ stack_buckets' = MoveAfterRef(stack_buckets, ref_index, current_index)
    /\ ref_index' = ref_index
    /\ current_index' = ref_index + 1
    /\ moves' = moves \cup {<<stack_buckets[ref_index + 1].horizontal_bucket_id,
                             stack_buckets[current_index + 1].horizontal_bucket_id>>}
    /\ UNCHANGED <<pipeline_vars, stacked, pc>>

\* Inner loop, match: current is moved right after ref and becomes the ref.
StackMove ==
    /\ pc = "stack9"
    /\ ref_index < Len(stack_buckets)
    /\ current_index < Len(stack_buckets)
    /\ StackMatch(stack_buckets[ref_index + 1], stack_buckets[current_index + 1])
    /\ stack_buckets' = MoveAfterRef(stack_buckets, ref_index, current_index)
    /\ ref_index' = ref_index + 1
    /\ current_index' = ref_index + 2
    /\ moves' = moves \cup {<<stack_buckets[ref_index + 1].horizontal_bucket_id,
                             stack_buckets[current_index + 1].horizontal_bucket_id>>}
    /\ UNCHANGED <<pipeline_vars, stacked, pc>>

\* Inner loop, no match: move to the next bucket.
StackSkip ==
    /\ pc = "stack9"
    /\ ref_index < Len(stack_buckets)
    /\ current_index < Len(stack_buckets)
    /\ ~StackMatch(stack_buckets[ref_index + 1], stack_buckets[current_index + 1])
    /\ current_index' = current_index + 1
    /\ UNCHANGED <<pipeline_vars, stacked, pc, stack_buckets, ref_index, moves>>

\* Inner loop exhausted: the next bucket in the list becomes the ref.
StackNextRef ==
    /\ pc = "stack9"
    /\ ref_index < Len(stack_buckets)
    /\ current_index >= Len(stack_buckets)
    /\ ref_index' = ref_index + 1
    /\ current_index' = ref_index + 2
    /\ UNCHANGED <<pipeline_vars, stacked, pc, stack_buckets, moves>>

\* Outer loop exhausted: ids are renumbered and the page is returned.
ProcessPageEnd ==
    /\ pc = "stack9"
    /\ ref_index >= Len(stack_buckets)
    /\ stacked' = ProcessPageOutput(hbuckets, stack_buckets)
    /\ pc' = "done"
    /\ UNCHANGED <<pipeline_vars, stack_locals>>

Next ==
    \/ ExtractAllQuadrants
    \/ MergePageQuadrants
    \/ CalculateMetricsForPage
    \/ MergeHorizontalForPage
    \/ ProcessPageBuckets
    \/ ProcessPageHorizontalBuckets
    \/ ProcessPageBegin
    \/ StackMove
    \/ StackSkip
    \/ StackNextRef
    \/ ProcessPageEnd

Spec == Init /\ [][Next]_vars

(***************************************************************************)
(* Stage 9 on its own: process_page applied to a stage 8 page whose        *)
(* Segments have the given page-space boxes.  Each Segment holds one Block *)
(* with a first Line at its top and, when it is taller than two Lines, a   *)
(* last Line at its bottom.                                                *)
(***************************************************************************)
MaxSegs == 4
SegLineHeight == 40

\* A Line as stage 6 leaves it, from a page-space box.
LineOf(text, start_x, end_x, start_y, end_y) ==
    BlockMetrics(<<Ext(OcrBlock(text, start_x, end_x, start_y, end_y, 90),
                       [source_quadrant |-> "top_left"])>>, 1)

SegmentOf(text, start_x, end_x, start_y, end_y) ==
    LET first == LineOf(text, start_x, end_x, start_y, start_y + SegLineHeight)
        last == LineOf(text, start_x, end_x, end_y - SegLineHeight, end_y)
        lines == IF end_y - start_y > 2 * SegLineHeight
                 THEN calculate_block_metrics(<<first, last>>)
                 ELSE <<LineOf(text, start_x, end_x, start_y, end_y)>>
    IN  HBucketInfo(0, <<BucketInfo(0, lines)>>)

\* Scenario C of the specification: A (10,45,10,30), B (11,44,32,50), the
\* intervening X (55,90,12,28); C continues the left column below B, D lies
\* inside A's vertical extent and so does another one above it, E continues
\* the right column below X.  The last two are a thin full-width Segment and
\* a short one above its right end that ranks after it.
SegmentPool ==
    {SegmentOf(Chars("Big"), 255, 1148, 330, 990),
     SegmentOf(Chars("Below"), 280, 1122, 1056, 1650),
     SegmentOf(Chars("Right"), 1403, 2295, 396, 924),
     SegmentOf(Chars("end"), 306, 1173, 1716, 2310),
     SegmentOf(Chars("x"), 255, 700, 500, 560),
     SegmentOf(Chars("y"), 255, 700, 400, 460),
     SegmentOf(Chars("Txt"), 255, 2500, 2640, 2670),
     SegmentOf(Chars("z"), 2280, 2500, 2606, 2636),
     SegmentOf(Chars("q"), 1428, 2320, 990, 1485)}

\* The members of a set of Segments in any order.
RECURSIVE SeqOfSet(_)
SeqOfSet(S) ==
    IF S = {} THEN <<>>
    ELSE LET x == CHOOSE y \in S : TRUE IN <<x>> \o SeqOfSet(S \ {x})

\* The stage 8 page of a set of Segments: ids in creation order, the list
\* sorted by min_mid_y_x and normalized, as process_page_horizontal_buckets
\* leaves it.
SegmentPage(segs) ==
    LET created == SortByKey(SeqOfSet(segs), "start_y")
        bucket_data == SortByKey([k \in DOMAIN created |->
                                     [created[k] EXCEPT !.horizontal_bucket_id = k - 1]],
                                 "min_mid_y_x")
    IN  [page_number |-> 1,
         total_text_blocks |-> SumSeq([k \in DOMAIN bucket_data |->
                                          bucket_data[k].num_text_blocks]),
         total_vertical_buckets |-> Len(bucket_data),
         total_horizontal_buckets |-> Len(bucket_data),
         horizontal_buckets |-> normalize_bucket_coordinates(bucket_data,
                                    RefPageWidth, RefPageHeight),
         adaptive_thresholds |-> Some(DefaultThresholds(0))]

InitStack ==
    /\ \E segs \in SUBSET SegmentPool :
          /\ Cardinality(segs) <= MaxSegs
          /\ hbuckets = SegmentPage(segs)
    /\ pc = "stage9"
    /\ quadrants = <<>>
    /\ ocr_results = Pending
    /\ loaded_page_data = Pending
    /\ merged = Pending
    /\ metrics = Pending
    /\ hmerged = Pending
    /\ vbuckets = Pending
    /\ stacked = Pending
    /\ stack_buckets = <<>>
    /\ ref_index = 0
    /\ current_index = 0
    /\ moves = {}
    /\ NoDocument

NextStack ==
    \/ ProcessPageBegin
    \/ StackMove
    \/ StackSkip
    \/ StackNextRef
    \/ ProcessPageEnd

SpecStack == InitStack /\ [][NextStack]_vars

(***************************************************************************)
(* Quantities the properties are stated over                               *)
(***************************************************************************)
\* The detections of the tiles whose image exists, and those among them that
\* pass the confidence filter (the surviving Fragments), read off the input.
InputFragments ==
    Concat([k \in DOMAIN quadrants |->
               IF quadrants[k].exists THEN quadrants[k].ocr ELSE <<>>])

SurvivingFragments ==
    SelectSeq(InputFragments, LAMBDA b : b.confidence >= MinConfidence)

TextsOf(blocks) == [i \in DOMAIN blocks |-> blocks[i].text]

\* The Line texts held by a list of Blocks / a list of Segments.
BlockTexts(buckets) ==
    Concat([k \in DOMAIN buckets |-> TextsOf(buckets[k].blocks)])

SegmentTexts(horizontal_buckets) ==
    Concat([k \in DOMAIN horizontal_buckets |->
               BlockTexts(horizontal_buckets[k].vertical_buckets)])

Alphabet == {" "} \cup UNION {Range(Detections[i].b.text) : i \in DOMAIN Detections}

Occurrences(text, c) == Cardinality({i \in DOMAIN text : text[i] = c})

TotalOccurrences(texts, c) ==
    SumSeq([i \in DOMAIN texts |-> Occurrences(texts[i], c)])

\* The number of times each character must occur in the Line texts: as in
\* the surviving Fragments, plus one space per merge of the Line Merger.
ExpectedOccurrences ==
    LET surviving == TextsOf(SurvivingFragments)
        spaces == MergeCount(metrics)
    IN  [c \in Alphabet |->
            TotalOccurrences(surviving, c) + (IF c = " " THEN spaces ELSE 0)]

OccurrencesIn(texts) == [c \in Alphabet |-> TotalOccurrences(texts, c)]

\* C1: after every stage from the Line Merger to the Reorderer, the characters
\* of the Line texts are exactly those of the Fragments that passed the
\* confidence filter plus one space per merge: no text is dropped or
\* duplicated.
C1_TextConservation ==
    hmerged # Pending =>
        LET expected == ExpectedOccurrences
        IN  /\ OccurrencesIn(TextsOf(hmerged.blocks)) = expected
            /\ vbuckets # Pending =>
                  OccurrencesIn(BlockTexts(vbuckets.buckets)) = expected
            /\ hbuckets # Pending =>
                  OccurrencesIn(SegmentTexts(hbuckets.horizontal_buckets)) = expected
            /\ pc = "stack9" =>
                  OccurrencesIn(SegmentTexts(stack_buckets)) = expected
            /\ stacked # Pending =>
                  OccurrencesIn(SegmentTexts(stacked.horizontal_buckets)) = expected

\* A page has run through all stages with at least one merge and one move.
C1_Witness ==
    /\ pc = "done"
    /\ MergeCount(metrics) >= 1
    /\ Len(SurvivingFragments) = MaxFrags
    /\ moves # {}

\* C2: running the Line Merger on its own output merges nothing: the Lines
\* come back unchanged and no two of them satisfy the merge predicate.
C2_LineMergerIdempotent ==
    hmerged # Pending =>
        /\ merge_horizontal_for_page(hmerged).blocks = hmerged.blocks
        /\ MergeCount(hmerged) = 0

\* C3: every normalized edge of every Segment lies in 0..100.
C3_EdgesInRange ==
    hbuckets # Pending =>
        \A k \in DOMAIN hbuckets.horizontal_buckets :
            LET b == hbuckets.horizontal_buckets[k]
            IN  {b.left_edge, b.right_edge, b.top_edge, b.bottom_edge} \subseteq 0..100

\* C4: no stage from the metrics to the Reorderer raises an exception.
C4_NeverRaises == pc # "error"

\* The composite key mid_y + start_x / 50 of a block, times KeyScale.
CompositeKey(block) == KeyScale * block.mid_y + block.start_x

\* C5: the Fragment Assembler returns the Fragments in ascending order of the
\* composite key computed on the returned coordinates.
C5_AssemblerSorted ==
    merged # Pending =>
        \A i, j \in DOMAIN merged.blocks :
            i < j => CompositeKey(merged.blocks[i]) <= CompositeKey(merged.blocks[j])

\* The stitched result of input tile q, if its image exists.
StitchedOf(q) ==
    {r \in Range(ocr_results.quadrants) : r.quadrant_name = q.quadrant_name}

\* Block b is block a shifted by dx and dy.
ShiftedBy(a, b, dx, dy) ==
    /\ b.start_x = a.start_x + dx
    /\ b.end_x = a.end_x + dx
    /\ b.mid_x = a.mid_x + dx
    /\ b.start_y = a.start_y + dy
    /\ b.end_y = a.end_y + dy
    /\ b.mid_y = a.mid_y + dy

\* C6: after stitching, the Fragments of a right-hand tile are shifted by the
\* tile width exactly once and those of a bottom tile by the tile height
\* exactly once, in every tile order and also when a left or top tile is
\* missing.
C6_StitchedOnce ==
    ocr_results # Pending =>
        \A k \in DOMAIN quadrants :
            LET q == quadrants[k]
                dx == IF q.quadrant_name \in {"top_right", "bottom_right"}
                      THEN q.width_px ELSE 0
                dy == IF q.quadrant_name \in {"bottom_left", "bottom_right"}
                      THEN q.height_px ELSE 0
            IN  q.exists =>
                  \A r \in StitchedOf(q) :
                      /\ Len(r.blocks) = Len(q.ocr)
                      /\ \A i \in DOMAIN q.ocr :
                            ShiftedBy(q.ocr[i], r.blocks[i], dx, dy)

\* C7: surviving Fragments >= Lines >= Blocks >= Segments, and the Reorderer
\* keeps the number of Segments.
C7_MonotonicReduction ==
    /\ merged # Pending => Len(merged.blocks) = Len(SurvivingFragments)
    /\ hmerged # Pending => Len(SurvivingFragments) >= Len(hmerged.blocks)
    /\ vbuckets # Pending => Len(hmerged.blocks) >= Len(vbuckets.buckets)
    /\ hbuckets # Pending =>
          Len(vbuckets.buckets) >= Len(hbuckets.horizontal_buckets)
    /\ pc = "stack9" => Len(stack_buckets) = Len(hbuckets.horizontal_buckets)
    /\ stacked # Pending =>
          Len(stacked.horizontal_buckets) = Len(hbuckets.horizontal_buckets)

\* Three Fragments became two Lines in one Block.
C7_Witness ==
    /\ pc = "done"
    /\ Len(SurvivingFragments) > Len(hmerged.blocks)
    /\ Len(hmerged.blocks) > Len(vbuckets.buckets)

Edges(bucket) ==
    <<bucket.left_edge, bucket.right_edge, bucket.top_edge, bucket.bottom_edge>>

EdgesOf(horizontal_buckets) ==
    [k \in DOMAIN horizontal_buckets |-> Edges(horizontal_buckets[k])]

\* Position in the list of the Segment that stage 8 gave the id.
PositionOf(horizontal_buckets, id) ==
    CHOOSE k \in DOMAIN horizontal_buckets :
        horizontal_buckets[k].horizontal_bucket_id = id

\* Every Segment moved so far sits directly after the reference it matched.
MovedAreAdjacent ==
    \A m \in moves :
        PositionOf(stack_buckets, m[2]) = PositionOf(stack_buckets, m[1]) + 1

\* No Segment between the reference and the scan position matches the
\* reference: a Segment that is moved is the first match after it.
ScanPassedNoMatch ==
    ref_index < Len(stack_buckets) =>
        \A k \in (ref_index + 2)..Min2(current_index, Len(stack_buckets)) :
            ~StackMatch(stack_buckets[ref_index + 1], stack_buckets[k])

\* In the final list a Segment with a matching Segment after it is followed
\* directly by a matching Segment.
NoMatchLeftBehind ==
    \A k \in DOMAIN stack_buckets :
        (\E j \in (k + 1)..Len(stack_buckets) :
            StackMatch(stack_buckets[k], stack_buckets[j]))
        => StackMatch(stack_buckets[k], stack_buckets[k + 1])

ScenarioC_S1 == <<10, 45, 10, 30>>
ScenarioC_S2 == <<11, 44, 32, 50>>
ScenarioC_Between == <<55, 90, 12, 28>>

\* C8: the first Segment after the reference that is column-aligned and
\* vertically close is placed directly after the reference and stays directly
\* after it up to the final output; S1 = (10,45,10,30), an intervening
\* Segment, S2 = (11,44,32,50) come out as S1, S2, intervening.
C8_ColumnContinuation ==
    /\ pc = "stack9" => MovedAreAdjacent /\ ScanPassedNoMatch
    /\ pc = "done" =>
          /\ MovedAreAdjacent
          /\ NoMatchLeftBehind
          /\ EdgesOf(stacked.horizontal_buckets) = EdgesOf(stack_buckets)
          /\ EdgesOf(hbuckets.horizontal_buckets)
                = <<ScenarioC_S1, ScenarioC_Between, ScenarioC_S2>>
             => EdgesOf(stacked.horizontal_buckets)
                = <<ScenarioC_S1, ScenarioC_S2, ScenarioC_Between>>

\* Scenario C has been reordered.
C8_Witness ==
    /\ pc = "done"
    /\ EdgesOf(hbuckets.horizontal_buckets)
          = <<ScenarioC_S1, ScenarioC_Between, ScenarioC_S2>>
    /\ Cardinality(moves) = 1

\* A Segment without its id.
Content(bucket) == [f \in DOMAIN bucket \ {"horizontal_bucket_id"} |-> bucket[f]]

\* Number of positions of the list holding the given content.
Copies(horizontal_buckets, content) ==
    Cardinality({k \in DOMAIN horizontal_buckets :
                    Content(horizontal_buckets[k]) = content})

\* C9: the Reorderer returns the Segments it was given, each exactly once and
\* unchanged but for its id, and the id at position k (from 0) is k; the page
\* totals and thresholds are unchanged.
C9_ReorderIsPermutation ==
    pc = "done" =>
        LET input == hbuckets.horizontal_buckets
            output == stacked.horizontal_buckets
        IN  /\ Len(output) = Len(input)
            /\ \A k \in DOMAIN input :
                  Copies(output, Content(input[k])) = Copies(input, Content(input[k]))
            /\ \A k \in DOMAIN output :
                  /\ Copies(input, Content(output[k])) >= 1
                  /\ output[k].horizontal_bucket_id = k - 1
            /\ [stacked EXCEPT !.horizontal_buckets = input] = hbuckets

\* The Reorderer returned the Segments in another order than it got them.
C9_Witness ==
    /\ pc = "done"
    /\ Len(stacked.horizontal_buckets) = MaxSegs
    /\ EdgesOf(stacked.horizontal_buckets) # EdgesOf(hbuckets.horizontal_buckets)

\* The horizontal gap: left edge of the box further right minus right edge
\* of the other box.
GapBetween(ref_block, current_block) ==
    IF current_block.start_x >= ref_block.start_x
    THEN current_block.start_x - ref_block.end_x
    ELSE ref_block.start_x - current_block.end_x

MidYDiff(ref_block, current_block) == Abs(current_block.mid_y - ref_block.mid_y)

\* The character width with a missing or zero estimate replaced.
WidthOr(block, fallback) ==
    IF IsNone(block.character_width) \/ block.character_width = Some(0)
    THEN fallback ELSE Val(block.character_width)

\* The blocks the merge predicate is applied to: the Fragments with their
\* metrics and the Lines.
PredicateBlocks ==
    (IF metrics # Pending THEN Range(metrics.blocks) ELSE {})
    \cup (IF hmerged # Pending THEN Range(hmerged.blocks) ELSE {})

\* The merge rule read with the character widths as stored, for the pairs
\* whose two widths are defined.
C10_StoredWidthRule ==
    metrics # Pending =>
        \A r, c \in PredicateBlocks :
            (r # c /\ ~IsNone(r.character_width) /\ ~IsNone(c.character_width)) =>
                LET t == Val(metrics.adaptive_thresholds)
                    wr == Val(r.character_width)
                    wc == Val(c.character_width)
                IN  /\ should_merge_blocks(r, c, metrics.adaptive_thresholds).should_merge
                       <=> /\ TScale * MidYDiff(r, c) < t.vertical_merge_tolerance
                           /\ 2 * GapBetween(r, c) < 3 * (wr + wc)
                    /\ should_merge_blocks(r, c, None).should_merge
                       => GapBetween(r, c) < 2 * Min2(wr, wc)

\* C10: with thresholds a candidate is accepted iff the mid_y distance is
\* strictly below vertical_merge_tolerance and the gap strictly below 3.0
\* times the average character width of the pair; without thresholds iff the
\* mid_y distance is strictly below the smaller character width and the gap
\* strictly below twice it; a character width that is missing or 0 counts as
\* 36 with thresholds and as 50 without.  'Hello' x:[100,200] and 'World' at
\* x = 500 on one line stay two Lines.
C10_MergeRule ==
    /\ metrics # Pending =>
          \A r, c \in PredicateBlocks :
              r # c =>
                LET t == Val(metrics.adaptive_thresholds)
                    wr == WidthOr(r, AdaptiveFallbackCharWidth)
                    wc == WidthOr(c, AdaptiveFallbackCharWidth)
                    lr == WidthOr(r, LegacyFallbackCharWidth)
                    lc == WidthOr(c, LegacyFallbackCharWidth)
                IN  /\ should_merge_blocks(r, c, metrics.adaptive_thresholds).should_merge
                       <=> /\ TScale * MidYDiff(r, c) < t.vertical_merge_tolerance
                           /\ 2 * GapBetween(r, c) < 3 * (wr + wc)
                    /\ should_merge_blocks(r, c, None).should_merge
                       <=> /\ MidYDiff(r, c) < Min2(lr, lc)
                           /\ GapBetween(r, c) < 2 * Min2(lr, lc)
    /\ (/\ hmerged # Pending
        /\ Len(metrics.blocks) = 2
        /\ metrics.blocks[1].text = Chars("Hello")
        /\ <<metrics.blocks[1].start_x, metrics.blocks[1].end_x>> = <<100, 200>>
        /\ metrics.blocks[2].text = Chars("World")
        /\ metrics.blocks[2].start_x = 500)
       => TextsOf(hmerged.blocks) = <<Chars("Hello"), Chars("World")>>

\* A Fragment of character width 0 was merged over a gap that the stored
\* width would not allow.
C10_Witness ==
    /\ hmerged # Pending
    /\ \E r, c \in Range(metrics.blocks) :
          /\ c.character_width = Some(0)
          /\ ~IsNone(r.character_width)
          /\ should_merge_blocks(r, c, metrics.adaptive_thresholds).should_merge
          /\ 2 * GapBetween(r, c) >= 3 * Val(r.character_width)
    /\ Len(hmerged.blocks) < Len(metrics.blocks)

\* m is lower.f and upper.f combined: the smaller (least = TRUE) or the
\* larger of the two values.
Extreme(m, a, b, f, least) ==
    /\ m[f] \in {a[f], b[f]}
    /\ IF least THEN m[f] <= a[f] /\ m[f] <= b[f]
       ELSE m[f] >= a[f] /\ m[f] >= b[f]

\* Line m is what the merge of a and b is stated to be.
MergedAsStated(a, b, m) ==
    /\ \/ a.start_x <= b.start_x /\ m.text = a.text \o <<" ">> \o b.text
       \/ b.start_x <= a.start_x /\ m.text = b.text \o <<" ">> \o a.text
    /\ Extreme(m, a, b, "start_x", TRUE)
    /\ Extreme(m, a, b, "start_y", TRUE)
    /\ Extreme(m, a, b, "end_x", FALSE)
    /\ Extreme(m, a, b, "end_y", FALSE)
    /\ Extreme(m, a, b, "confidence", FALSE)
    /\ m.char_count = a.char_count + b.char_count + 1
    /\ m.word_count = a.word_count + b.word_count

\* The page holds exactly the two Fragments of Scenario A.
ScenarioA ==
    /\ metrics # Pending
    /\ Len(metrics.blocks) = 2
    /\ LET hello == metrics.blocks[1]
           world == metrics.blocks[2]
       IN  /\ hello.text = Chars("Hello")
           /\ <<hello.start_x, hello.end_x, hello.start_y, hello.end_y>>
                 = <<100, 200, 50, 70>>
           /\ world.text = Chars("World")
           /\ <<world.start_x, world.end_x, world.start_y, world.end_y>>
                 = <<210, 300, 52, 72>>
           /\ Val(metrics.adaptive_thresholds).vertical_merge_tolerance = 50 * TScale

\* C11: a merge yields the text of the left Fragment, a space and the text of
\* the other, the union of the boxes, char_count = sum + 1, word_count = sum
\* and the larger confidence; 'Hello' x:[100,200] y:[50,70] and 'World'
\* x:[210,300] y:[52,72] become the Line 'Hello World' x:[100,300] y:[50,72].
C11_MergeResult ==
    /\ metrics # Pending =>
          \A r, c \in PredicateBlocks :
              (r # c /\ should_merge_blocks(r, c, metrics.adaptive_thresholds).should_merge)
              => MergedAsStated(r, c, merge_two_blocks(r, c))
    /\ (ScenarioA /\ hmerged # Pending) =>
          /\ Len(hmerged.blocks) = 1
          /\ MergedAsStated(metrics.blocks[1], metrics.blocks[2], hmerged.blocks[1])
          /\ hmerged.blocks[1].text = Chars("Hello") \o <<" ">> \o Chars("World")
          /\ LET line == hmerged.blocks[1]
             IN  <<line.start_x, line.end_x, line.start_y, line.end_y>>
                    = <<100, 300, 50, 72>>

\* Scenario A has been merged.
C11_Witness == ScenarioA /\ hmerged # Pending /\ Len(hmerged.blocks) = 1

\* The Fragments stage 4 reads: the blocks of all stitched tiles.
StitchedFragments ==
    Concat([k \in DOMAIN ocr_results.quadrants |-> ocr_results.quadrants[k].blocks])

\* What identifies a Fragment across stage 4, which changes its coordinates.
Identity(block) == <<block.text, block.confidence, block.char_count>>

\* Number of blocks of the list with the given identity.
CountOf(blocks, id) == Cardinality({i \in DOMAIN blocks : Identity(blocks[i]) = id})

\* A block as read from a file that records no confidence for it.
WithoutConfidence(block) == [f \in DOMAIN block \ {"confidence"} |-> block[f]]

\* C12: the Fragment Assembler keeps exactly the Fragments whose confidence is
\* at least the floor (one at the floor is kept, one without confidence counts
\* as 0 and is discarded), and blocks_filtered + total_blocks is the number of
\* input Fragments of all tiles.
C12_ConfidenceFilter ==
    merged # Pending =>
        LET input == StitchedFragments
            kept == SelectSeq(input, LAMBDA b : b.confidence >= MinConfidence)
        IN  /\ Len(merged.blocks) = Len(kept)
            /\ \A i \in DOMAIN input :
                  CountOf(merged.blocks, Identity(input[i]))
                     = CountOf(kept, Identity(input[i]))
            /\ \A i \in DOMAIN merged.blocks :
                  merged.blocks[i].confidence >= MinConfidence
            /\ merged.total_blocks = Len(merged.blocks)
            /\ merged.blocks_filtered + merged.total_blocks = Len(input)
            /\ \A i \in DOMAIN input :
                  FilterBlocks(<<WithoutConfidence(input[i])>>, MinConfidence) = <<>>

\* A Fragment at the floor was kept and one below it was discarded.
C12_Witness ==
    /\ merged # Pending
    /\ merged.blocks_filtered >= 1
    /\ \E i \in DOMAIN merged.blocks : merged.blocks[i].confidence = MinConfidence

\* No Fragment of the page passes the confidence filter.
EmptyPage == SurvivingFragments = <<>>

\* C13: a page without Fragments, or whose Fragments are all discarded by the
\* confidence filter, runs through stages 4 to 9 without an exception and
\* has no Lines, no Blocks and no Segments.
C13_EmptyPage ==
    EmptyPage =>
        /\ pc # "error"
        /\ pc # "done" => ENABLED Next
        /\ merged # Pending => merged.blocks = <<>> /\ merged.total_blocks = 0
        /\ metrics # Pending => metrics.blocks = <<>>
        /\ hmerged # Pending => hmerged.blocks = <<>>
        /\ vbuckets # Pending => vbuckets.buckets = <<>>
        /\ hbuckets # Pending => hbuckets.horizontal_buckets = <<>>
        /\ pc = "stack9" => stack_buckets = <<>>
        /\ stacked # Pending => stacked.horizontal_buckets = <<>>

\* A page whose Fragments were all discarded has been processed to the end.
C13_Witness ==
    /\ pc = "done"
    /\ InputFragments # <<>>
    /\ EmptyPage
    /\ stacked.total_horizontal_buckets = 0

(***************************************************************************)
(* Pages with enough Fragments for the statistics of stage 5: a grid of    *)
(* words in tile top_left, run through all stages.                         *)
(***************************************************************************)
MaxGridFrags == 11

\* Grids in tile coordinates: number of columns, word width and height,
\* distance between the columns and between the rows, the extra distance
\* after every third row (a paragraph break), and the indentation of every
\* second row.
GridLayouts ==
    {[cols |-> 1, width |-> 400, height |-> 80, col_pitch |-> 0, row_pitch |-> 120,
      break |-> 0, stagger |-> 0],
     [cols |-> 1, width |-> 400, height |-> 80, col_pitch |-> 0, row_pitch |-> 120,
      break |-> 200, stagger |-> 0],
     [cols |-> 2, width |-> 400, height |-> 80, col_pitch |-> 2000, row_pitch |-> 120,
      break |-> 0, stagger |-> 0],
     [cols |-> 2, width |-> 400, height |-> 60, col_pitch |-> 2000, row_pitch |-> 100,
      break |-> 300, stagger |-> 0],
     [cols |-> 3, width |-> 200, height |-> 80, col_pitch |-> 220, row_pitch |-> 120,
      break |-> 0, stagger |-> 0],
     [cols |-> 3, width |-> 200, height |-> 80, col_pitch |-> 400, row_pitch |-> 90,
      break |-> 160, stagger |-> 0],
     [cols |-> 2, width |-> 60, height |-> 80, col_pitch |-> 300, row_pitch |-> 120,
      break |-> 0, stagger |-> 150]}

GridWords == <<Chars("Hello"), Chars("World"), Chars("Next")>>

\* The n detections of a grid, row by row.
GridDetections(n, layout) ==
    [i \in 1..n |->
        LET row == (i - 1) \div layout.cols
            col == (i - 1) % layout.cols
            x == 200 + col * layout.col_pitch + (row % 2) * layout.stagger
            y == 100 + row * layout.row_pitch + (row \div 3) * layout.break
        IN  OcrBlock(GridWords[col + 1], x, x + layout.width, y, y + layout.height, 90)]

GridMetadata(n, layout) ==
    [k \in DOMAIN QuadrantNames |->
        [quadrant_name |-> QuadrantNames[k],
         width_px |-> RefPageWidth,
         height_px |-> RefPageHeight,
         exists |-> TRUE,
         ocr |-> IF QuadrantNames[k] = "top_left"
                 THEN GridDetections(n, layout) ELSE <<>>]]

InitGrid ==
    /\ \E n \in 0..MaxGridFrags, layout \in GridLayouts :
          quadrants = GridMetadata(n, layout)
    /\ pc = "stage3"
    /\ ocr_results = Pending
    /\ loaded_page_data = Pending
    /\ merged = Pending
    /\ metrics = Pending
    /\ hmerged = Pending
    /\ vbuckets = Pending
    /\ hbuckets = Pending
    /\ stacked = Pending
    /\ stack_buckets = <<>>
    /\ ref_index = 0
    /\ current_index = 0
    /\ moves = {}
    /\ NoDocument

SpecGrid == InitGrid /\ [][Next]_vars

\* The four thresholds of a record, in pixels times TScale.
FourThresholds(t) ==
    <<t.vertical_merge_tolerance, t.horizontal_merge_gap,
      t.vertical_bucket_tolerance, t.horizontal_bucket_tolerance>>

\* The thresholds follow from the statistics recorded with them: the gaps are
\* 2.5 and 1.5 median character widths, the tolerances are bounded below by
\* 0.5 and 1.4 median heights and by 1.2 median vertical spacings.
DerivedFromStatistics(t) ==
    /\ 2 * t.horizontal_merge_gap = 5 * t.metadata.median_char_width
    /\ 2 * t.horizontal_bucket_tolerance = 3 * t.metadata.median_char_width
    /\ 2 * t.vertical_merge_tolerance >= t.metadata.median_height
    /\ 5 * t.vertical_bucket_tolerance >= 7 * t.metadata.median_height
    /\ 5 * t.vertical_bucket_tolerance >= 6 * t.metadata.median_vertical_spacing
    /\ \/ 5 * t.vertical_bucket_tolerance = 7 * t.metadata.median_height
       \/ 5 * t.vertical_bucket_tolerance = 6 * t.metadata.median_vertical_spacing

\* C14: with fewer than 10 Fragments (0 included) the Threshold Estimator
\* returns the defaults 50, 100, 70, 50 flagged used_defaults; with 10 or
\* more it returns thresholds derived from the statistics, not flagged.
C14_DefaultsBelowTen ==
    metrics # Pending =>
        LET t == Val(metrics.adaptive_thresholds)
            n == Len(merged.blocks)
        IN  /\ t.metadata.total_blocks_analyzed = n
            /\ IF n < 10
               THEN /\ FourThresholds(t)
                         = <<50 * TScale, 100 * TScale, 70 * TScale, 50 * TScale>>
                    /\ t.metadata.used_defaults = TRUE
               ELSE /\ t.metadata.used_defaults = FALSE
                    /\ DerivedFromStatistics(t)

\* A page of at least 10 Fragments got thresholds other than the defaults.
C14_Witness ==
    /\ metrics # Pending
    /\ Len(merged.blocks) >= 10
    /\ Val(metrics.adaptive_thresholds).metadata.used_defaults = FALSE
    /\ FourThresholds(Val(metrics.adaptive_thresholds))
          # <<50 * TScale, 100 * TScale, 70 * TScale, 50 * TScale>>

WellFormedBox(b) == b.start_x <= b.end_x /\ b.start_y <= b.end_y

\* A Fragment or Line with a well-formed box and a confidence in [0, 1].
WellFormedBlock(b) == WellFormedBox(b) /\ b.confidence \in 0..ConfScale

WellFormedBlocks(blocks) == \A i \in DOMAIN blocks : WellFormedBlock(blocks[i])

\* Blocks with well-formed boxes holding well-formed Lines.
WellFormedBuckets(buckets) ==
    \A k \in DOMAIN buckets :
        WellFormedBox(buckets[k]) /\ WellFormedBlocks(buckets[k].blocks)

WellFormedSegments(horizontal_buckets) ==
    \A k \in DOMAIN horizontal_buckets :
        /\ WellFormedBox(horizontal_buckets[k])
        /\ WellFormedBuckets(horizontal_buckets[k].vertical_buckets)

\* C15: the detections have start <= end in both directions and a confidence
\* in [0, 1]; so has every Fragment after stitching and after halving, every
\* Line, and so has the box of every Block and Segment.
C15_WellFormedBoxes ==
    /\ WellFormedBlocks(InputFragments)
    /\ ocr_results # Pending => WellFormedBlocks(StitchedFragments)
    /\ merged # Pending => WellFormedBlocks(merged.blocks)
    /\ metrics # Pending => WellFormedBlocks(metrics.blocks)
    /\ hmerged # Pending => WellFormedBlocks(hmerged.blocks)
    /\ vbuckets # Pending => WellFormedBuckets(vbuckets.buckets)
    /\ hbuckets # Pending => WellFormedSegments(hbuckets.horizontal_buckets)
    /\ pc = "stack9" => WellFormedSegments(stack_buckets)
    /\ stacked # Pending => WellFormedSegments(stacked.horizontal_buckets)

\* A page with a merge and a Fragment whose stitched left edge is odd, so
\* that halving rounds, has been processed to the end.
C15_Witness ==
    /\ pc = "done"
    /\ Len(hmerged.blocks) < Len(metrics.blocks)
    /\ \E i \in DOMAIN StitchedFragments :
          /\ StitchedFragments[i].start_x % 2 = 1
          /\ StitchedFragments[i].confidence >= MinConfidence

(***************************************************************************)
(* C18: the adaptive_thresholds record is threaded through unchanged       *)
(***************************************************************************)
\* Two threshold records are equal field by field, metadata included.
SameThresholds(a, b) ==
    /\ IsNone(a) = IsNone(b)
    /\ ~IsNone(a) =>
          /\ DOMAIN Val(a) = DOMAIN Val(b)
          /\ \A f \in DOMAIN Val(a) : Val(a)[f] = Val(b)[f]

\* The outputs of stages 6 to 9 that exist in the current state.
ThresholdCarriers ==
    (IF hmerged # Pending THEN {hmerged} ELSE {})
    \cup (IF vbuckets # Pending THEN {vbuckets} ELSE {})
    \cup (IF hbuckets # Pending THEN {hbuckets} ELSE {})
    \cup (IF stacked # Pending THEN {stacked} ELSE {})

\* C18: the adaptive_thresholds value carried in the output of the Line
\* Merger, the Block Builder, the Segment Builder and the Reorderer equals,
\* field by field, the record the Threshold Estimator computed in stage 5.
C18_ThresholdsUnchanged ==
    \A out \in ThresholdCarriers :
        /\ "adaptive_thresholds" \in DOMAIN out
        /\ SameThresholds(out.adaptive_thresholds, metrics.adaptive_thresholds)

\* A page with at least ten fragments, whose thresholds are derived from the
\* page statistics, has passed through all four later stages, and the Line
\* Merger merged something on the way.
C18_Witness ==
    /\ pc = "done"
    /\ {hmerged, vbuckets, hbuckets, stacked} = ThresholdCarriers
    /\ Val(metrics.adaptive_thresholds).metadata.used_defaults = FALSE
    /\ Len(hmerged.blocks) < Len(metrics.blocks)

(***************************************************************************)
(* C20: the Block Builder is first-fit in creation order                   *)
(***************************************************************************)
\* The Block whose last member is last accepts line under thresholds t.
Accepts(last, line, t) ==
    /\ TScale * Abs(line.mid_y - last.mid_y) < t.vertical_bucket_tolerance
    /\ \/ TScale * Abs(line.start_x - last.start_x)
             < 2 * t.horizontal_bucket_tolerance
       \/ TScale * Abs(line.mid_x - last.mid_x) < t.horizontal_bucket_tolerance
       \/ TScale * Abs(line.end_x - last.end_x) < t.horizontal_bucket_tolerance

\* Number of Blocks opened by the Lines whose owners are given; owners[j] is
\* the creation rank (from 1) of the Block that holds Line j.
BlocksCreated(owners) == IF owners = <<>> THEN 0 ELSE SetMax(Range(owners))

\* The Blocks that accept Line Len(owners) + 1, given the owners of the Lines
\* before it.
AcceptingBlocks(lines, owners, t) ==
    LET line == lines[Len(owners) + 1]
        last(c) == lines[SetMax({j \in DOMAIN owners : owners[j] = c})]
    IN  {c \in 1..BlocksCreated(owners) : Accepts(last(c), line, t)}

\* First-fit assignment of every Line to a Block, Line by Line.
RECURSIVE FirstFitOwners(_, _, _)
FirstFitOwners(lines, owners, t) ==
    IF Len(owners) = Len(lines) THEN owners
    ELSE LET accepting == AcceptingBlocks(lines, owners, t)
         IN  FirstFitOwners(lines,
                            Append(owners, IF accepting = {}
                                           THEN BlocksCreated(owners) + 1
                                           ELSE SetMin(accepting)),
                            t)

\* The Lines owned by Block c, in the order in which they were taken.
MembersOf(lines, owners, c) ==
    LET js == {j \in DOMAIN owners : owners[j] = c}
    IN  [k \in 1..Cardinality(js) |->
            lines[CHOOSE j \in js : Cardinality({x \in js : x <= j}) = k]]

\* The Lines the Block Builder takes, in ascending mid_y_x order.
BlockBuilderLines == SortByKey(hmerged.blocks, "mid_y_x")

BlockBuilderOwners ==
    FirstFitOwners(BlockBuilderLines, <<>>, Val(hmerged.adaptive_thresholds))

\* C20: the first Line seeds the first Block; every later Line, taken in
\* ascending mid_y_x order, joins the earliest-created Block whose last member
\* accepts it, and a new Block is opened exactly when no Block accepts it.
\* bucket_id is the creation rank of a Block, counted from 0.
C20_BlockBuilderFirstFit ==
    vbuckets # Pending =>
        LET lines == BlockBuilderLines
            owners == BlockBuilderOwners
        IN  /\ Len(vbuckets.buckets) = BlocksCreated(owners)
            /\ \A c \in 1..BlocksCreated(owners) :
                  \E k \in DOMAIN vbuckets.buckets :
                      /\ vbuckets.buckets[k].bucket_id = c - 1
                      /\ vbuckets.buckets[k].blocks = MembersOf(lines, owners, c)

\* The Block Builder has run on a page where some Line is accepted by two
\* Blocks, and some later Line by none.
C20_Witness ==
    /\ vbuckets # Pending
    /\ LET lines == BlockBuilderLines
           owners == BlockBuilderOwners
           t == Val(hmerged.adaptive_thresholds)
           accepting(i) == AcceptingBlocks(lines, SubSeq(owners, 1, i - 1), t)
       IN  /\ \E i \in DOMAIN lines : Cardinality(accepting(i)) >= 2
           /\ \E i \in DOMAIN lines : i > 1 /\ accepting(i) = {}

(***************************************************************************)
(* A document of several pages: stages 4 to 9 run page by page on the      *)
(* page files, in any interleaving, and stage 10 then exports the pages.   *)
(***************************************************************************)
single_page_vars == <<quadrants, pc, ocr_results, merged, metrics, hmerged,
                      vbuckets, hbuckets, stacked, loaded_page_data,
                      stack_locals>>

\* The tiles of the pages a document is made of: a page whose only Fragment
\* is below the confidence floor, a page of two columns, a page with a
\* Fragment of empty text, and a page with one line of two words.
BatchContents ==
    LET page(chosen) == QuadrantMetadata(<<RefPageWidth, RefPageHeight>>,
                                         QuadrantNames, Range(QuadrantNames),
                                         chosen, FALSE)
    IN  {page({9}), page({1, 8, 14}), page({1, 6}), page({1, 2})}

\* The page numbers of the pages of a document, in the order of
\* ocr_metadata.json.
PageNumberings == {<<1, 2>>, <<2, 10>>, <<1, 2, 10>>}

\* The entry of ocr_metadata.json for a page: the stage 3 result of its tiles.
OcrPage(page_num, quads) ==
    [extract_all_quadrants(quads) EXCEPT !.page_number = page_num]

\* The page lists of ocr_metadata.json the documents start from.
Documents ==
    UNION {{[i \in DOMAIN numbers |-> OcrPage(numbers[i], contents[i])] :
               contents \in [DOMAIN numbers -> BatchContents]} :
           numbers \in PageNumberings}

InitPages ==
    /\ ocr_metadata \in Documents
    /\ store = <<>>
    /\ export_pc = "idle"
    /\ bucket_files = <<>>
    /\ last_bucket_prev_page = None
    /\ llm_ready = <<>>
    /\ quadrants = <<>>
    /\ pc = "batch"
    /\ ocr_results = Pending
    /\ loaded_page_data = Pending
    /\ merged = Pending
    /\ metrics = Pending
    /\ hmerged = Pending
    /\ vbuckets = Pending
    /\ hbuckets = Pending
    /\ stacked = Pending
    /\ stack_buckets = <<>>
    /\ ref_index = 0
    /\ current_index = 0
    /\ moves = {}

\* Variant: one file per stage, whatever the page.
FileKeyShared(stage, page_num) == <<stage, 0>>

\* The file page_<N>_<suffix>.json in the output directory of a stage.
FileKey(stage, page_num) == <<stage, page_num>>

\* open(path, 'w') and json.dump: the file is created or replaced.
WriteFile(files, key, data) ==
    [k \in DOMAIN files \cup {key} |-> IF k = key THEN data ELSE files[k]]

\* The page numbers of the files in the output directory of a stage.
FilesOf(stage) == {k[2] : k \in {f \in DOMAIN store : f[1] = stage}}

\* What a stage makes of the content of one input file.
StageRaises(stage, page_data) ==
    CASE stage = 7 -> ProcessPageBucketsRaises(page_data)
      [] stage = 8 -> ProcessPageHorizontalBucketsRaises(page_data)
      [] OTHER -> FALSE

StageResult(stage, page_data) ==
    CASE stage = 4 -> merge_page_quadrants(page_data, MinConfidence)
      [] stage = 5 -> [calculate_metrics_for_page(page_data) EXCEPT
                          !.adaptive_thresholds = Some(@)]
      [] stage = 6 -> merge_horizontal_for_page(page_data)
      [] stage = 7 -> process_page_buckets(page_data)
      [] stage = 8 -> process_page_horizontal_buckets(page_data)
      [] stage = 9 -> process_page(page_data)

\* One iteration of the page loop of a stage on one input: the page is
\* processed and its file is written under the page number of the result.
ProcessFile(stage, page_data) ==
    /\ pc = "batch"
    /\ export_pc = "idle"
    /\ ~StageRaises(stage, page_data)
    /\ \E result \in {StageResult(stage, page_data)} :
          store' = WriteFile(store, FileKey(stage, result.page_number), result)
    /\ UNCHANGED <<single_page_vars, ocr_metadata, export_pc, bucket_files,
                   last_bucket_prev_page, llm_ready>>

MergeAllPagesStep ==
    \E i \in DOMAIN ocr_metadata : ProcessFile(4, ocr_metadata[i])

CalculateMetricsStep ==
    \E n \in FilesOf(4) : ProcessFile(5, store[FileKey(4, n)])

MergeHorizontalStep ==
    \E n \in FilesOf(5) : ProcessFile(6, store[FileKey(5, n)])

ProcessBucketsStep ==
    \E n \in FilesOf(6) : ProcessFile(7, store[FileKey(6, n)])

ProcessHorizontalBucketsStep ==
    \E n \in FilesOf(7) : ProcessFile(8, store[FileKey(7, n)])

VerticalStackingStep ==
    \E n \in FilesOf(8) : ProcessFile(9, store[FileKey(8, n)])

\* Every page has gone as far as it gets: each input of each stage has its
\* output file, or the stage raises on it.
StageSettled(stage, page_data) ==
    \/ StageRaises(stage, page_data)
    \/ FileKey(stage, page_data.page_number) \in DOMAIN store

PagesSettled ==
    /\ \A i \in DOMAIN ocr_metadata : StageSettled(4, ocr_metadata[i])
    /\ \A stage \in 5..9 : \A n \in FilesOf(stage - 1) :
          StageSettled(stage, store[FileKey(stage - 1, n)])

\* process_all_pages of stage 10 starts: the stage 9 files are listed and
\* sorted, and there is no last bucket yet.
ExportBegin ==
    /\ pc = "batch"
    /\ export_pc = "idle"
    /\ PagesSettled
    /\ bucket_files' = SortedByPageNumber(FilesOf(9))
    /\ last_bucket_prev_page' = None
    /\ export_pc' = IF FilesOf(9) = {} THEN "done" ELSE "loop"
    /\ UNCHANGED <<single_page_vars, ocr_metadata, store, llm_ready>>

\* One iteration of the for loop of process_all_pages.
ExportPage ==
    /\ export_pc = "loop"
    /\ bucket_files # <<>>
    /\ \E result \in {process_page_file(store[FileKey(9, Head(bucket_files))],
                                          last_bucket_prev_page)} :
          /\ llm_ready' = Append(llm_ready, result.output_data)
          /\ last_bucket_prev_page' =
                IF result.simplified_buckets # <<>>
                THEN Some(result.simplified_buckets[Len(result.simplified_buckets)])
                ELSE None
    /\ bucket_files' = Tail(bucket_files)
    /\ UNCHANGED <<single_page_vars, ocr_metadata, store, export_pc>>

ExportEnd ==
    /\ export_pc = "loop"
    /\ bucket_files = <<>>
    /\ export_pc' = "done"
    /\ UNCHANGED <<single_page_vars, ocr_metadata, store, bucket_files,
                   last_bucket_prev_page, llm_ready>>

NextPages ==
    \/ MergeAllPagesStep
    \/ CalculateMetricsStep
    \/ MergeHorizontalStep
    \/ ProcessBucketsStep
    \/ ProcessHorizontalBucketsStep
    \/ VerticalStackingStep
    \/ ExportBegin
    \/ ExportPage
    \/ ExportEnd

SpecPages == InitPages /\ [][NextPages]_vars

(***************************************************************************)
(* C16, C17: the pages of a document are processed independently           *)
(***************************************************************************)
\* Stages 4 to 9 applied in order to one page and nothing else, from stage.
RECURSIVE RunAlone(_, _)
RunAlone(stage, page_data) ==
    IF StageRaises(stage, page_data) THEN [raised |-> TRUE]
    ELSE LET result == StageResult(stage, page_data)
         IN  IF stage = 9 THEN [raised |-> FALSE, result |-> result]
             ELSE RunAlone(stage + 1, result)

ProcessedAlone(page) == RunAlone(4, page)

\* The content of a page file without the number of the page.
Unnumbered(page_data) == [page_data EXCEPT !.page_number = 0]

\* The texts of the Lines of a stage 6 page, in order.
LineTexts(page_data) == [k \in DOMAIN page_data.blocks |-> page_data.blocks[k].text]

\* The Blocks of the Segments of a stage 8 or stage 9 page, in list order.
SegmentOrder(page_data) ==
    [k \in DOMAIN page_data.horizontal_buckets |->
        page_data.horizontal_buckets[k].vertical_buckets]

\* The pages of the document that hold the same Fragments in the same order.
EqualInput(i, j) == ocr_metadata[i].quadrants = ocr_metadata[j].quadrants

C17_PagesIndependent ==
    \A i \in DOMAIN ocr_metadata :
        LET final == FileKey(9, ocr_metadata[i].page_number)
            alone == ProcessedAlone(ocr_metadata[i])
        IN  /\ final \in DOMAIN store =>
                  /\ ~alone.raised
                  /\ store[final].horizontal_buckets
                        = alone.result.horizontal_buckets
            /\ (PagesSettled /\ ~alone.raised) => final \in DOMAIN store

\* One page has its final Segments while another page, with other Fragments,
\* is still between the Line Merger and the Block Builder.
C17_Witness ==
    \E i, j \in DOMAIN ocr_metadata :
        /\ ~EqualInput(i, j)
        /\ FileKey(9, ocr_metadata[i].page_number) \in DOMAIN store
        /\ store[FileKey(9, ocr_metadata[i].page_number)].horizontal_buckets # <<>>
        /\ FileKey(6, ocr_metadata[j].page_number) \in DOMAIN store
        /\ store[FileKey(6, ocr_metadata[j].page_number)].blocks # <<>>
        /\ FileKey(7, ocr_metadata[j].page_number) \notin DOMAIN store

(***************************************************************************)
(* C19: the export of stage 10                                             *)
(***************************************************************************)
\* The stripped, non-empty texts of the Lines of a Segment, Block by Block.
SegmentLineTexts(segment) ==
    LET lines == Concat([v \in DOMAIN segment.vertical_buckets |->
                            segment.vertical_buckets[v].blocks])
    IN  SelectSeq([k \in DOMAIN lines |-> Strip(lines[k].text)],
                  LAMBDA text : text # <<>>)

\* handle is the simplified form of the last Segment of a stage 9 page.
IsLastSegmentOf(handle, segments) ==
    LET last == segments[Len(segments)]
    IN  /\ handle.id = Len(segments) - 1
        /\ handle.id = last.horizontal_bucket_id
        /\ <<handle.left_edge, handle.top_edge, handle.right_edge, handle.bottom_edge>>
             = <<last.left_edge, last.top_edge, last.right_edge, last.bottom_edge>>
        /\ handle.texts = SegmentLineTexts(last)

\* C19: pages are exported in ascending page number; the first exported page
\* has no last_bucket_previous_page, and every later page has the last
\* Segment of the page exported just before it, or None when that page has
\* no Segments; at the end every stage 9 page has been exported.
C19_ExportOrder ==
    /\ \A i, j \in DOMAIN llm_ready :
          i < j => llm_ready[i].page_number < llm_ready[j].page_number
    /\ llm_ready # <<>> => llm_ready[1].last_bucket_previous_page = None
    /\ \A i \in DOMAIN llm_ready :
          i > 1 =>
            LET previous == store[FileKey(9, llm_ready[i - 1].page_number)]
                handle == llm_ready[i].last_bucket_previous_page
            IN  IF previous.horizontal_buckets = <<>> THEN handle = None
                ELSE /\ handle # None
                     /\ IsLastSegmentOf(Val(handle), previous.horizontal_buckets)
                     /\ Val(handle) = llm_ready[i - 1].buckets[Len(llm_ready[i - 1].buckets)]
    /\ export_pc = "done" =>
          {llm_ready[i].page_number : i \in DOMAIN llm_ready} = FilesOf(9)

\* Three pages have been exported; the second has no Segments, so the third
\* has no handle although the first page has Segments.
C19_Witness ==
    /\ export_pc = "done"
    /\ Len(llm_ready) = 3
    /\ llm_ready[1].buckets # <<>>
    /\ llm_ready[2].buckets = <<>>
    /\ llm_ready[2].last_bucket_previous_page # None
    /\ llm_ready[3].last_bucket_previous_page = None
    /\ llm_ready[3].page_number = 10

(***************************************************************************)
(* Line Merger: chains, lookahead and text order                           *)
(***************************************************************************)
\* The list merge_blocks_recursive receives: the Fragments of stage 5 in
\* mid_y_x order.
MergerInput == SortByKey(metrics.blocks, "mid_y_x")

\* sub occurs in text as a run of consecutive characters.
ContainsText(text, sub) ==
    \E k \in 0..(Len(text) - Len(sub)) : SubSeq(text, k + 1, k + Len(sub)) = sub

\* The first three Fragments of the list form a chain: the second merges
\* with the first and the third with the merge of the two.
ChainAtHead ==
    /\ hmerged # Pending
    /\ Len(MergerInput) >= 3
    /\ LET A == MergerInput[1]
           B == MergerInput[2]
           C == MergerInput[3]
           t == metrics.adaptive_thresholds
       IN  /\ should_merge_blocks(A, B, t).should_merge
           /\ should_merge_blocks(merge_two_blocks(A, B), C, t).should_merge

\* C21: after a merge the scan restarts with the merged Line as reference,
\* so merges chain: when B merges with A and C merges with the merged A+B,
\* one single Line holds the three texts, even when C does not merge with A
\* alone.
C21_MergesChain ==
    ChainAtHead =>
        \E i \in DOMAIN hmerged.blocks :
            /\ \A k \in 1..3 : ContainsText(hmerged.blocks[i].text, MergerInput[k].text)
            /\ hmerged.blocks[i].word_count
                   >= MergerInput[1].word_count + MergerInput[2].word_count
                      + MergerInput[3].word_count
            /\ Len(hmerged.blocks) <= Len(MergerInput) - 2

\* A chain of exactly three Fragments whose third does not merge with the
\* first alone became one Line.
C21_Witness ==
    /\ ChainAtHead
    /\ Len(MergerInput) = 3
    /\ ~should_merge_blocks(MergerInput[1], MergerInput[3],
                            metrics.adaptive_thresholds).should_merge
    /\ Len(hmerged.blocks) = 1

(***************************************************************************)
(* Pages with one long run of Fragments between two neighbours: a word, n  *)
(* words in a far column whose sort keys lie between, and the word next to *)
(* the first one, with or without a word below; all in tile top_left, run  *)
(* through all stages.                                                     *)
(***************************************************************************)
MaxFillers == 21

\* below adds a word under the first one, a line height further down.
RowDetections(n, below) ==
    <<OcrBlock(Chars("Hello"), 200, 400, 100, 180, 90)>>
    \o [k \in 1..n |-> OcrBlock(Chars("Next"), 1500, 1600, 90, 170, 90)]
    \o <<OcrBlock(Chars("World"), 420, 620, 120, 200, 90)>>
    \o (IF below THEN <<OcrBlock(Chars("Below"), 200, 400, 270, 350, 90)>> ELSE <<>>)

RowMetadata(n, below) ==
    [k \in DOMAIN QuadrantNames |->
        [quadrant_name |-> QuadrantNames[k],
         width_px |-> RefPageWidth,
         height_px |-> RefPageHeight,
         exists |-> TRUE,
         ocr |-> IF QuadrantNames[k] = "top_left" THEN RowDetections(n, below)
                 ELSE <<>>]]

InitRow ==
    /\ \E n \in 0..MaxFillers, below \in BOOLEAN : quadrants = RowMetadata(n, below)
    /\ pc = "stage3"
    /\ ocr_results = Pending
    /\ loaded_page_data = Pending
    /\ merged = Pending
    /\ metrics = Pending
    /\ hmerged = Pending
    /\ vbuckets = Pending
    /\ hbuckets = Pending
    /\ stacked = Pending
    /\ stack_buckets = <<>>
    /\ ref_index = 0
    /\ current_index = 0
    /\ moves = {}
    /\ NoDocument

SpecRow == InitRow /\ [][Next]_vars

\* The text and the box of a Fragment or Line.
TextAndBox(b) == <<b.text, b.start_x, b.end_x, b.start_y, b.end_y>>

\* The positions after the first of the list whose Fragment satisfies the
\* merge predicate with the first one.
HeadPartners ==
    {j \in 2..Len(MergerInput) :
        should_merge_blocks(MergerInput[1], MergerInput[j],
                            metrics.adaptive_thresholds).should_merge}

\* C22: a reference at position i is compared with the elements at positions
\* i+1 .. i+20 only: a Fragment more than 20 positions after the reference at
\* the time of the scan is not merged into it during that scan, even if the
\* pair satisfies the merge predicate; one within 20 positions is.
C22_LookaheadWindow ==
    (hmerged # Pending /\ Len(MergerInput) >= 2 /\ HeadPartners # {}) =>
        LET head == MergerInput[1]
            kept == \E i \in DOMAIN hmerged.blocks :
                        TextAndBox(hmerged.blocks[i]) = TextAndBox(head)
        IN  IF SetMin(HeadPartners) > 1 + max_lookahead
            THEN kept /\ MergeCount(metrics) < Len(MergerInput) - 1
            ELSE ~kept

\* The only Fragment that satisfies the predicate with the first one lay 21
\* or more positions after it, and the first one is a Line of its own.
C22_Witness ==
    /\ hmerged # Pending
    /\ Len(MergerInput) >= 2
    /\ HeadPartners # {}
    /\ SetMin(HeadPartners) > 1 + max_lookahead
    /\ \E i \in DOMAIN hmerged.blocks :
          TextAndBox(hmerged.blocks[i]) = TextAndBox(MergerInput[1])

\* The text of a merge as stated: the reference first unless the candidate
\* starts strictly further left.
TextByStartX(ref_block, candidate) ==
    IF candidate.start_x < ref_block.start_x
    THEN candidate.text \o <<" ">> \o ref_block.text
    ELSE ref_block.text \o <<" ">> \o candidate.text

\* The first three Fragments of the list became one Line whose text lists the
\* second before the third although the third starts further left.
OutOfOrderLine ==
    /\ ChainAtHead
    /\ MergerInput[1].start_x <= MergerInput[3].start_x
    /\ MergerInput[3].start_x < MergerInput[2].start_x
    /\ \E i \in DOMAIN hmerged.blocks :
          ContainsText(hmerged.blocks[i].text,
                       MergerInput[1].text \o <<" ">> \o MergerInput[2].text
                       \o <<" ">> \o MergerInput[3].text)

\* C29: merge_two_blocks orders the two texts by comparing the start_x of the
\* reference, merged or not, with the start_x of the candidate, reference
\* first on a tie: a candidate that does not start left of the accumulated
\* Line is appended at the end of its text, wherever its box lies among the
\* Fragments merged earlier.
C29_TextOrderByStartX ==
    /\ metrics # Pending =>
          \A r, c \in PredicateBlocks :
              merge_two_blocks(r, c).text = TextByStartX(r, c)
    /\ ChainAtHead =>
          LET A == MergerInput[1]
              B == MergerInput[2]
              C == MergerInput[3]
              AB == [text |-> TextByStartX(A, B), start_x |-> Min2(A.start_x, B.start_x)]
          IN  \E i \in DOMAIN hmerged.blocks :
                  ContainsText(hmerged.blocks[i].text, TextByStartX(AB, C))

\* A Line whose text does not list its Fragments in ascending start_x order.
C29_Witness == OutOfOrderLine

(***************************************************************************)
(* Reorderer: chains, termination and the closeness test                   *)
(***************************************************************************)
\* The Segment of the list that stage 8 gave the id.
SegmentById(id) == stack_buckets[PositionOf(stack_buckets, id)]

\* Pairs of moves in which the Segment moved first was the reference of the
\* second move.
MoveChains == {c \in moves \X moves : c[1][2] = c[2][1]}

\* S1, S2, S3 of a chain of moves are next to each other, in this order.
ChainContiguous(c) ==
    /\ PositionOf(stack_buckets, c[1][2]) = PositionOf(stack_buckets, c[1][1]) + 1
    /\ PositionOf(stack_buckets, c[2][2]) = PositionOf(stack_buckets, c[1][1]) + 2

\* No moved Segment lies behind the reference: the Segment moved last is
\* the reference and the scan goes on behind it.
MovedUpToReference ==
    \A m \in moves :
        /\ PositionOf(stack_buckets, m[2]) <= ref_index + 1
        /\ PositionOf(stack_buckets, m[2]) < current_index + 1

ScenarioChain_S3 == <<12, 46, 52, 70>>

\* C23: chains collapse: a Segment S2 moved directly after the reference S1
\* becomes the reference and the scan restarts behind it; the first later
\* Segment S3 that is column-aligned and vertically close to S2 is moved
\* directly after S2, so that S1, S2, S3 are contiguous in the final order
\* even when S3 does not match S1.
C23_ChainsCollapse ==
    /\ pc = "stack9" =>
          /\ MovedUpToReference
          /\ \A c \in MoveChains : ChainContiguous(c)
    /\ pc = "done" =>
          /\ \A c \in MoveChains : ChainContiguous(c)
          /\ EdgesOf(hbuckets.horizontal_buckets)
                = <<ScenarioC_S1, ScenarioC_Between, ScenarioC_S2, ScenarioChain_S3>>
             => EdgesOf(stacked.horizontal_buckets)
                = <<ScenarioC_S1, ScenarioC_S2, ScenarioChain_S3, ScenarioC_Between>>

\* A chain S1, S2, S3 whose S3 does not match S1 has been collapsed.
C23_Witness ==
    /\ pc = "done"
    /\ \E c \in MoveChains :
          /\ ~StackMatch(SegmentById(c[1][1]), SegmentById(c[2][2]))
          /\ ChainContiguous(c)
          /\ PositionOf(hbuckets.horizontal_buckets, c[1][2])
                > PositionOf(hbuckets.horizontal_buckets, c[1][1]) + 1

\* The loops of vertical_column_stack_sort run one after the other in one
\* thread: a step that is possible is taken.
SpecStackFair == InitStack /\ [][NextStack]_vars /\ WF_vars(NextStack)

\* Every Segment of the list matches every other one, whichever of the two
\* is the reference.
AllPairsMatch(horizontal_buckets) ==
    \A i, j \in DOMAIN horizontal_buckets :
        i # j => StackMatch(horizontal_buckets[i], horizontal_buckets[j])

\* One step inside the loops: the reference index stays or grows by one, it
\* grows on every match and at the end of every scan, the scan position grows
\* while the reference stays, and the Segments up to the reference keep their
\* places, so that none of them is the reference again.
LoopStepAdvances ==
    (pc = "stack9" /\ pc' = "stack9") =>
        /\ ref_index' \in {ref_index, ref_index + 1}
        /\ stack_buckets' # stack_buckets => ref_index' = ref_index + 1
        /\ current_index >= Len(stack_buckets) => ref_index' = ref_index + 1
        /\ ref_index' = ref_index => current_index' = current_index + 1
        /\ ref_index' = ref_index + 1 => current_index' = ref_index' + 1
        /\ Len(stack_buckets') = Len(stack_buckets)
        /\ \A k \in 1..Min2(ref_index + 1, Len(stack_buckets)) :
              stack_buckets'[k] = stack_buckets[k]

\* C25: vertical_column_stack_sort terminates on every finite Segment list,
\* lists whose Segments all match each other included: the reference index
\* strictly increases on every match and on every outer iteration, and each
\* Segment is the reference at most once.
C25_Terminates ==
    /\ <>(pc = "done")
    /\ [][LoopStepAdvances]_vars
    /\ [](pc = "stack9" => ref_index <= Len(stack_buckets))

\* A list of three Segments that all match each other has been reordered to
\* the end, every scan step having been a move.
C25_Witness ==
    /\ pc = "done"
    /\ Len(stack_buckets) >= 3
    /\ AllPairsMatch(hbuckets.horizontal_buckets)
    /\ Cardinality(moves) = Len(stack_buckets) - 1

\* The Segment the scan is looking at lies within 3 of the bottom of the
\* reference or anywhere above that.
NotFarBelow(ref_bucket, current_bucket) ==
    current_bucket.top_edge <= ref_bucket.bottom_edge + 3

\* A comparison is being made: both loop conditions hold.
Comparing ==
    /\ pc = "stack9"
    /\ ref_index < Len(stack_buckets)
    /\ current_index < Len(stack_buckets)

\* The Segment compared is column-aligned and not far below the reference,
\* and the step puts it directly after the reference.
MovedWhenNotFarBelow ==
    (/\ Comparing
     /\ is_vertically_aligned(stack_buckets[ref_index + 1],
                              stack_buckets[current_index + 1], AlignThreshold)
     /\ NotFarBelow(stack_buckets[ref_index + 1], stack_buckets[current_index + 1]))
    => /\ stack_buckets'[ref_index + 2] = stack_buckets[current_index + 1]
       /\ stack_buckets'[ref_index + 1] = stack_buckets[ref_index + 1]
       /\ <<stack_buckets[ref_index + 1].horizontal_bucket_id,
            stack_buckets[current_index + 1].horizontal_bucket_id>> \in moves'

\* C26: is_vertically_close has no lower bound: it holds for every current
\* Segment with top_edge <= ref.bottom_edge + 3, Segments that overlap the
\* reference vertically or lie entirely above it included; such a Segment
\* that is also column-aligned is moved directly after the reference.
C26_NoLowerBound ==
    /\ [](Comparing =>
            (is_vertically_close(stack_buckets[ref_index + 1],
                                 stack_buckets[current_index + 1], GapThreshold)
             <=> NotFarBelow(stack_buckets[ref_index + 1],
                             stack_buckets[current_index + 1])))
    /\ [][MovedWhenNotFarBelow]_vars

\* A Segment lying entirely above its reference and one overlapping its
\* reference have been moved directly after it.
C26_Witness ==
    /\ pc = "done"
    /\ \E m \in moves :
          /\ SegmentById(m[2]).bottom_edge <= SegmentById(m[1]).top_edge
          /\ PositionOf(stack_buckets, m[2]) = PositionOf(stack_buckets, m[1]) + 1
    /\ \E m \in moves :
          /\ SegmentById(m[2]).top_edge < SegmentById(m[1]).bottom_edge
          /\ SegmentById(m[2]).bottom_edge > SegmentById(m[1]).top_edge

(***************************************************************************)
(* Pages on which a Block spans two columns: two words side by side, a     *)
(* wide word less than a Line height below them, a word below the left     *)
(* column, a word far away, and two rows of a left and a right column; any *)
(* of them present, all in tile top_left, run through all stages.          *)
(***************************************************************************)
SpanPool ==
    <<OcrBlock(Chars("Hello"), 200, 400, 100, 180, 90),
      OcrBlock(Chars("World"), 800, 1000, 100, 180, 90),
      OcrBlock(Chars("Big"), 200, 1000, 240, 320, 90),
      OcrBlock(Chars("Below"), 200, 400, 270, 350, 90),
      OcrBlock(Chars("end"), 1800, 2000, 2000, 2080, 90),
      OcrBlock(Chars("Next"), 800, 1000, 400, 480, 90),
      OcrBlock(Chars("x"), 200, 400, 1000, 1080, 90),
      OcrBlock(Chars("q"), 1400, 1600, 1000, 1080, 90),
      OcrBlock(Chars("y"), 200, 400, 1100, 1180, 90)>>

\* The detections of the pool whose index is chosen, in pool order.
SpanDetections(chosen) ==
    LET present == SelectSeq([i \in DOMAIN SpanPool |-> i], LAMBDA i : i \in chosen)
    IN  [k \in DOMAIN present |-> SpanPool[present[k]]]

SpanMetadata(chosen) ==
    [k \in DOMAIN QuadrantNames |->
        [quadrant_name |-> QuadrantNames[k],
         width_px |-> RefPageWidth,
         height_px |-> RefPageHeight,
         exists |-> TRUE,
         ocr |-> IF QuadrantNames[k] = "top_left" THEN SpanDetections(chosen)
                 ELSE <<>>]]

InitSpan ==
    /\ \E chosen \in SUBSET DOMAIN SpanPool : quadrants = SpanMetadata(chosen)
    /\ pc = "stage3"
    /\ ocr_results = Pending
    /\ loaded_page_data = Pending
    /\ merged = Pending
    /\ metrics = Pending
    /\ hmerged = Pending
    /\ vbuckets = Pending
    /\ hbuckets = Pending
    /\ stacked = Pending
    /\ stack_buckets = <<>>
    /\ ref_index = 0
    /\ current_index = 0
    /\ moves = {}
    /\ NoDocument

SpecSpan == InitSpan /\ [][Next]_vars

(***************************************************************************)
(* The Segment Builder is first-fit in creation order                      *)
(***************************************************************************)
\* Sum over the Lines of a Block of an integer field.
LineSum(block, f) == SumSeq([i \in DOMAIN block.blocks |-> block.blocks[i][f]])

LineWidthSum(block) ==
    SumSeq([i \in DOMAIN block.blocks |-> Val(block.blocks[i].character_width)])

\* The Segment whose last Block is last accepts block: the vertical gap is
\* below the average of the two average Line heights and one of the three
\* horizontal distances is below the average of the two average character
\* widths.  The averages are compared as fractions; mid_x is in halves.
SegmentAccepts(last, block) ==
    LET n == 2 * last.num_blocks * block.num_blocks
        heights == LineSum(last, "height") * block.num_blocks
                   + LineSum(block, "height") * last.num_blocks
        widths == LineWidthSum(last) * block.num_blocks
                  + LineWidthSum(block) * last.num_blocks
    IN  /\ n * (block.start_y - last.end_y) < heights
        /\ \/ n * Abs(block.start_x - last.start_x) < widths
           \/ n * Abs(block.mid_x - last.mid_x) < 2 * widths
           \/ n * Abs(block.end_x - last.end_x) < widths

\* The Segments that accept Block Len(owners) + 1, given the owners of the
\* Blocks before it.
AcceptingSegments(blocks, owners) ==
    LET block == blocks[Len(owners) + 1]
        last(c) == blocks[SetMax({j \in DOMAIN owners : owners[j] = c})]
    IN  {c \in 1..BlocksCreated(owners) : SegmentAccepts(last(c), block)}

\* First-fit assignment of every Block to a Segment, Block by Block.
RECURSIVE FirstFitSegments(_, _)
FirstFitSegments(blocks, owners) ==
    IF Len(owners) = Len(blocks) THEN owners
    ELSE LET accepting == AcceptingSegments(blocks, owners)
         IN  FirstFitSegments(blocks,
                              Append(owners, IF accepting = {}
                                             THEN BlocksCreated(owners) + 1
                                             ELSE SetMin(accepting)))

SegmentBuilderOwners == FirstFitSegments(vbuckets.buckets, <<>>)

\* C24: the Segment Builder is first-fit in creation order: a Block, taken in
\* rank order, joins the earliest-created Segment whose last Block accepts it
\* and opens a new Segment when none does.
C24_SegmentBuilderFirstFit ==
    hbuckets # Pending =>
        LET blocks == vbuckets.buckets
            owners == SegmentBuilderOwners
        IN  /\ Len(hbuckets.horizontal_buckets) = BlocksCreated(owners)
            /\ \A c \in 1..BlocksCreated(owners) :
                  \E k \in DOMAIN hbuckets.horizontal_buckets :
                      /\ hbuckets.horizontal_buckets[k].horizontal_bucket_id = c - 1
                      /\ hbuckets.horizontal_buckets[k].vertical_buckets
                            = MembersOf(blocks, owners, c)

\* The Segment Builder has run on a page where some Block is accepted by two
\* Segments, and some later Block by none.
C24_Witness ==
    /\ hbuckets # Pending
    /\ LET blocks == vbuckets.buckets
           owners == SegmentBuilderOwners
           accepting(i) == AcceptingSegments(blocks, SubSeq(owners, 1, i - 1))
       IN  /\ \E i \in DOMAIN blocks : Cardinality(accepting(i)) >= 2
           /\ \E i \in DOMAIN blocks : i > 1 /\ accepting(i) = {}

(***************************************************************************)
(* The two grouping stages produce partitions                              *)
(***************************************************************************)
\* sub is full with some elements left out: the elements of sub occur in
\* full in the same order.
RECURSIVE IsSubsequence(_, _)
IsSubsequence(sub, full) ==
    IF sub = <<>> THEN TRUE
    ELSE IF full = <<>> THEN FALSE
    ELSE IF Head(sub) = Head(full) THEN IsSubsequence(Tail(sub), Tail(full))
    ELSE IsSubsequence(sub, Tail(full))

\* Number of positions of the list that hold x.
TimesIn(list, x) == Cardinality({i \in DOMAIN list : list[i] = x})

\* groups is a partition of input: no group is empty, every element of input
\* is in the groups as often as in input, and every group lists its members
\* in input order.
IsOrderedPartition(groups, input) ==
    /\ \A g \in DOMAIN groups : groups[g] # <<>> /\ IsSubsequence(groups[g], input)
    /\ SumSeq([g \in DOMAIN groups |-> Len(groups[g])]) = Len(input)
    /\ \A i \in DOMAIN input :
          SumSeq([g \in DOMAIN groups |-> TimesIn(groups[g], input[i])])
             = TimesIn(input, input[i])

\* The member lists of the Blocks and of the Segments.
BlockMembers == [k \in DOMAIN vbuckets.buckets |-> vbuckets.buckets[k].blocks]

SegmentMembers ==
    [k \in DOMAIN hbuckets.horizontal_buckets |->
        hbuckets.horizontal_buckets[k].vertical_buckets]

\* The members of the group are not neighbours in the input.
Interleaved(group, input) ==
    \A i \in 1..(Len(input) - Len(group) + 1) :
        SubSeq(input, i, i + Len(group) - 1) # group

\* C28: both grouping stages produce partitions: create_buckets puts every
\* input Line into exactly one Block, create_horizontal_buckets every input
\* Block into exactly one Segment; no group is empty and the members of a
\* group keep their relative input order.
C28_GroupingPartitions ==
    /\ vbuckets # Pending =>
          /\ IsOrderedPartition(BlockMembers, BlockBuilderLines)
          /\ IsOrderedPartition(create_buckets(BlockBuilderLines,
                                               hmerged.adaptive_thresholds),
                                BlockBuilderLines)
    /\ hbuckets # Pending =>
          /\ IsOrderedPartition(SegmentMembers, vbuckets.buckets)
          /\ IsOrderedPartition(create_horizontal_buckets(vbuckets.buckets),
                                vbuckets.buckets)

\* Both stages have grouped a page into fewer groups than members, with a
\* Block whose Lines and a Segment whose Blocks are not neighbours in the
\* input.
C28_Witness ==
    /\ hbuckets # Pending
    /\ Len(vbuckets.buckets) < Len(BlockBuilderLines)
    /\ \E k \in DOMAIN BlockMembers : Interleaved(BlockMembers[k], BlockBuilderLines)
    /\ Len(hbuckets.horizontal_buckets) > 1
    /\ Len(hbuckets.horizontal_buckets) < Len(vbuckets.buckets)
    /\ \E k \in DOMAIN SegmentMembers :
          Interleaved(SegmentMembers[k], vbuckets.buckets)

(***************************************************************************)
(* The order and the ids of the Blocks                                     *)
(***************************************************************************)
\* The Blocks in the order in which create_buckets opened them.
BlocksAsCreated == create_buckets(BlockBuilderLines, hmerged.adaptive_thresholds)

\* C30: in process_page_buckets the Lines are taken in ascending mid_y_x
\* order, so the min_mid_y_x of a Block is the key of its first Line and the
\* Blocks are created in non-decreasing min_mid_y_x order; the final sort by
\* min_mid_y_x leaves their order as it is, and the bucket_id of the Block at
\* position k of the output, counted from 0, is k.
C30_BlockOrder ==
    vbuckets # Pending =>
        LET created == BlocksAsCreated
            output == vbuckets.buckets
        IN  /\ Len(output) = Len(created)
            /\ \A k \in DOMAIN output :
                  /\ output[k].min_mid_y_x = output[k].blocks[1].mid_y_x
                  /\ \A i \in DOMAIN output[k].blocks :
                        output[k].blocks[i].mid_y_x >= output[k].min_mid_y_x
                  /\ output[k].blocks = created[k]
                  /\ output[k].bucket_id = k - 1
            /\ \A k \in 1..(Len(created) - 1) :
                  created[k][1].mid_y_x <= created[k + 1][1].mid_y_x

\* A Block of several Lines was followed by a Block opened before its last
\* Line was taken.
C30_Witness ==
    /\ vbuckets # Pending
    /\ \E k \in 1..(Len(vbuckets.buckets) - 1) :
          LET lines == vbuckets.buckets[k].blocks
          IN  /\ Len(lines) >= 2
              /\ lines[Len(lines)].mid_y_x > vbuckets.buckets[k + 1].min_mid_y_x
              /\ lines[1].mid_y_x < vbuckets.buckets[k + 1].min_mid_y_x

(***************************************************************************)
(* merge_page_quadrants changes the records it is given                    *)
(***************************************************************************)
\* The coordinates of a record that scale_coordinates_to_original halves.
ScaledFields == {"start_x", "end_x", "mid_x", "start_y", "end_y", "mid_y", "height"}

\* Record after holds the values of record before, halved and rounded.
HalvedFrom(after, before) ==
    /\ \A f \in ScaledFields : after[f] = Round(before[f], 2)
    /\ after.text = before.text

\* The records of the loaded page that pass the confidence filter, as pairs
\* of quadrant and position.
KeptRecords ==
    {p \in UNION {{<<k, i>> : i \in DOMAIN ocr_results.quadrants[k].blocks} :
                     k \in DOMAIN ocr_results.quadrants} :
        ocr_results.quadrants[p[1]].blocks[p[2]].confidence >= MinConfidence}

\* What a second call on the loaded page returns.
SecondMerge == merge_page_quadrants(loaded_page_data, MinConfidence)

\* C27: merge_page_quadrants does not copy the records: it adds
\* source_quadrant to the records of its argument and halves their
\* coordinates in place, so that after one call the argument holds halved
\* coordinates and a second call on it returns coordinates halved twice: the
\* two results differ.
C27_InputChangedInPlace ==
    loaded_page_data # Pending =>
        /\ \A k \in DOMAIN ocr_results.quadrants :
              LET before == ocr_results.quadrants[k]
                  after == loaded_page_data.quadrants[k]
              IN  /\ Len(after.blocks) = Len(before.blocks)
                  /\ \A i \in DOMAIN before.blocks :
                        /\ "source_quadrant" \in DOMAIN after.blocks[i]
                        /\ after.blocks[i].source_quadrant = before.quadrant_name
                        /\ <<k, i>> \in KeptRecords
                              => HalvedFrom(after.blocks[i], before.blocks[i])
        /\ \A i \in DOMAIN merged.blocks :
              \E p \in KeptRecords :
                  merged.blocks[i] = loaded_page_data.quadrants[p[1]].blocks[p[2]]
        /\ LET second == SecondMerge.blocks
           IN  /\ Len(second) = Len(merged.blocks)
               /\ \A j \in DOMAIN second :
                     \E i \in DOMAIN merged.blocks :
                         HalvedFrom(second[j], merged.blocks[i])
               /\ merged.blocks # <<>> => second # merged.blocks

\* A page with a record that passed the filter and one that did not has been
\* merged, and a second call on the loaded page returns another result.
C27_Witness ==
    /\ loaded_page_data # Pending
    /\ merged.blocks # <<>>
    /\ merged.blocks_filtered > 0
    /\ SecondMerge # merged

====
